---- MODULE Spec2Model ----
(***************************************************************************)
(* State-machine model of the resource manager of ssao-techniques          *)
(* (src/src/resource_manager.rs): the five handle-indexed arenas, the      *)
(* descriptor-based create operations, the type-checked accessors, the     *)
(* derived bind-group layout, update_buffer and the shader hot-reload      *)
(* operation recompile.                                                    *)
(*                                                                         *)
(* The graphics backend (wgpu) is modelled by what the manager can observe *)
(* of it: a validation error raised inside an error scope is captured and  *)
(* returned by pop_error_scope; a validation error raised outside any      *)
(* error scope reaches the default uncaptured-error handler, which panics. *)
(* A panic ends the process: no operation is enabled afterwards.           *)
(***************************************************************************)
EXTENDS Integers, Sequences, FiniteSets, TLC

\* ---------------------------------------------------------------- bounds
\* Number of resources (of all kinds together) the model creates in one run.
MaxResources == 2
\* Number of render pipelines the device builds in one run.
MaxPipelines == 3
\* Number of entries of a bind-group layout, and of handles of a bind group.
MaxEntries == 1
\* The same, for the runs that start from a manager holding resources.
MaxBindEntries == 3
\* Number of bind groups created in such a run.
MaxBindGroups == 2
\* Number of entries of the layout descriptors given to layout derivation.
MaxLayoutEntries == 3
\* Number of textures created in a run that creates textures only.
MaxTextures == 2
\* Number of glTF scenes loaded in a run of the frame loop.
MaxLoads == 1

\* ------------------------------------------------------- option values
\* Option<T> is a sequence of length 0 (None) or 1 (Some).
None == <<>>
Some(x) == <<x>>

\* --------------------------------------------------------------- handles
HandleType == {"BUFFER", "TEXTURE", "SAMPLER", "BINDGROUP", "SHADER"}

Handle(i, k) == [index |-> i, kind |-> k]

\* Handles a caller may pass: every kind tag, indices in and out of range.
Handles == {Handle(i, k) : i \in 0..MaxResources, k \in HandleType}

\* Handles passed to the operations that use the index alone (update_buffer,
\* recompile): one kind tag that fits and one that does not.
UntypedHandles == {h \in Handles : h.kind \in {"BUFFER", "SHADER"}}

\* ---------------------------------------------------------- panic texts
NoPanic == ""
PanicHandleType == "Handle type is incorrect."
PanicBindGroupHandleType == "Expected handle type bindgroup"
PanicIndex == "index out of bounds"
PanicUnwrap == "called Result::unwrap on an Err value"
PanicCrossFile == "only supporting ps and vs shaders from same file right now"
PanicUnsupportedFormat == "Unsupported format"
PanicWgpu == "wgpu error: Validation Error"
PanicOverflow == "attempt to add with overflow"

\* ------------------------------------------------------------ u32 values
\* A u32 is written as its two 16-bit halves, value hi * 2^16 + lo, so that
\* the whole range of the type is at hand.
Half == 65536

U32(hi, lo) == [hi |-> hi, lo |-> lo]

\* The u32 of a number below 2^31.
ToU32(n) == U32(n \div Half, n % Half)

\* u32::MAX
U32Max == U32(Half - 1, Half - 1)

\* a + 1 on u32 with the overflow check of a debug build: None on overflow.
CheckedAddOne(a) ==
    IF a.lo < Half - 1 THEN Some(U32(a.hi, a.lo + 1))
    ELSE IF a.hi < Half - 1 THEN Some(U32(a.hi + 1, 0))
    ELSE None

\* ------------------------------------------------------- shader sources
\* The shader files on disk and the texts an editor may leave in them.
Paths == {"a.wgsl", "b.wgsl"}

SourceTexts == {"wgsl_rev1", "wgsl_rev2", "wgsl_syntax_error", "wgsl_no_entry"}

\* Device::create_shader_module: does the WGSL text parse and validate?
WgslValid(text) == text # "wgsl_syntax_error"

\* The entry points a valid module provides.
EntryPoints(text) ==
    IF text \in {"wgsl_rev1", "wgsl_rev2"} THEN {"vs_main", "fs_main"} ELSE {}

\* The message of the validation error create_shader_module raises for text.
ValidationError(text) == <<"Validation Error", text>>

\* ---------------------------------------------------------- descriptors
ShaderModuleDesc(p, f) == [path |-> p, entry_func |-> f]

ShaderDesc(vs, ps) ==
    [vs |-> vs, ps |-> ps, bind_group_layouts |-> <<>>,
     pipeline_state |-> [depth_test |-> None, targets |-> <<"Bgra8UnormSrgb">>,
                         vertex_buffer_bindings |-> <<>>]]

\* A vertex+fragment shader of a.wgsl, a vertex-only shader of b.wgsl, and a
\* descriptor that pairs the vertex stage of a.wgsl with a fragment stage of
\* b.wgsl.
ShaderDescs ==
    {ShaderDesc(ShaderModuleDesc("a.wgsl", "vs_main"),
                Some(ShaderModuleDesc("a.wgsl", "fs_main"))),
     ShaderDesc(ShaderModuleDesc("b.wgsl", "vs_main"), None),
     ShaderDesc(ShaderModuleDesc("a.wgsl", "vs_main"),
                Some(ShaderModuleDesc("b.wgsl", "fs_main")))}

\* Device::create_render_pipeline: the stages the descriptor names must be
\* entry points of the module.
PipelineValid(desc, text) ==
    /\ desc.vs.entry_func \in EntryPoints(text)
    /\ desc.ps # None => desc.ps[1].entry_func \in EntryPoints(text)

\* -------------------------------------------------------------- Shader::new
\* Shader::new with a backend that hands out a pipeline for any source.
ShaderNewTolerant(desc, file, id) ==
    IF desc.ps # None /\ desc.ps[1].path # desc.vs.path
    THEN [panic |-> PanicCrossFile, shader |-> None]
    ELSE IF file = None
    THEN [panic |-> PanicUnwrap, shader |-> None]
    ELSE [panic |-> NoPanic,
          shader |-> Some([desc |-> desc,
                           internal |-> [id |-> id, source |-> file[1]]])]

\* Shader::new that reads the source file before it compares the paths.
ShaderNewReadsFirst(desc, file, id) ==
    IF file = None
    THEN [panic |-> PanicUnwrap, shader |-> None]
    ELSE IF desc.ps # None /\ desc.ps[1].path # desc.vs.path
    THEN [panic |-> PanicCrossFile, shader |-> None]
    ELSE LET source == file[1] IN
         IF ~WgslValid(source) \/ ~PipelineValid(desc, source)
         THEN [panic |-> PanicWgpu, shader |-> None]
         ELSE [panic |-> NoPanic,
               shader |-> Some([desc |-> desc,
                                internal |-> [id |-> id, source |-> source]])]

\* Shader::new with a backend that checks the module but builds a pipeline
\* also for stages the module does not provide.
ShaderNewNoPipelineCheck(desc, file, id) ==
    IF desc.ps # None /\ desc.ps[1].path # desc.vs.path
    THEN [panic |-> PanicCrossFile, shader |-> None]
    ELSE IF file = None
    THEN [panic |-> PanicUnwrap, shader |-> None]
    ELSE LET source == file[1] IN
         IF ~WgslValid(source)
         THEN [panic |-> PanicWgpu, shader |-> None]
         ELSE [panic |-> NoPanic,
               shader |-> Some([desc |-> desc,
                                internal |-> [id |-> id, source |-> source]])]

\* Shader::new(rm, desc), where file is what read_to_string(desc.vs.path)
\* returns at the time of the call (None: the read fails) and id numbers the
\* pipeline object the device builds.  No error scope is open here, so a
\* validation error of create_shader_module or create_render_pipeline is
\* uncaptured and panics.  Result: [panic |-> text, shader |-> Option<Shader>].
ShaderNew(desc, file, id) ==
    IF desc.ps # None /\ desc.ps[1].path # desc.vs.path
    THEN [panic |-> PanicCrossFile, shader |-> None]
    ELSE IF file = None
    THEN [panic |-> PanicUnwrap, shader |-> None]
    ELSE LET source == file[1] IN
         IF ~WgslValid(source) \/ ~PipelineValid(desc, source)
         THEN [panic |-> PanicWgpu, shader |-> None]
         ELSE [panic |-> NoPanic,
               shader |-> Some([desc |-> desc,
                                internal |-> [id |-> id, source |-> source]])]

\* ------------------------------------------------------ backend: buffers
Zeros(n) == [i \in 1..n |-> 0]

\* wgpu::COPY_BUFFER_ALIGNMENT
COPY_BUFFER_ALIGNMENT == 4

\* A write that replaces the whole content: data, then zeros to the end.
WriteBufferReplacesContent(buffer, data) ==
    IF Len(data) = 0
    THEN [panic |-> NoPanic, buffer |-> buffer]
    ELSE IF \/ "COPY_DST" \notin buffer.usage
            \/ Len(data) % COPY_BUFFER_ALIGNMENT # 0
            \/ Len(data) > buffer.size
    THEN [panic |-> PanicWgpu, buffer |-> buffer]
    ELSE [panic |-> NoPanic,
          buffer |-> [buffer EXCEPT !.data =
                        [i \in 1..buffer.size |->
                            IF i <= Len(data) THEN data[i] ELSE 0]]]

\* A write the backend accepts whatever its length.
WriteBufferUnchecked(buffer, data) ==
    [panic |-> NoPanic,
     buffer |-> [buffer EXCEPT !.data =
                   [i \in 1..buffer.size |->
                       IF i <= Len(data) THEN data[i] ELSE buffer.data[i]]]]

\* Queue::write_buffer(buffer, 0, data): an empty write is ignored; otherwise
\* the buffer must allow COPY_DST, the length must be a multiple of
\* COPY_BUFFER_ALIGNMENT and the write must end inside the buffer.  A
\* violation is a validation error raised outside any error scope.
\* Result: [panic |-> text, buffer |-> the buffer after the call].
WriteBuffer(buffer, data) ==
    IF Len(data) = 0
    THEN [panic |-> NoPanic, buffer |-> buffer]
    ELSE IF \/ "COPY_DST" \notin buffer.usage
            \/ Len(data) % COPY_BUFFER_ALIGNMENT # 0
            \/ Len(data) > buffer.size
    THEN [panic |-> PanicWgpu, buffer |-> buffer]
    ELSE [panic |-> NoPanic,
          buffer |-> [buffer EXCEPT !.data =
                        [i \in 1..buffer.size |->
                            IF i <= Len(data) THEN data[i] ELSE buffer.data[i]]]]

\* ----------------------------------------------------- backend: textures
\* create_texture: the format -> bytes-per-pixel table (None: not in the table).
BytesPerPixel(format) ==
    CASE format = "Rgba8UnormSrgb" -> Some(4)
      [] format = "Depth32Float" -> Some(4)
      [] format = "Rgba16Float" -> Some(8)
      [] OTHER -> None

\* create_texture: the depth flag of a format.
IsDepthFormat(format) ==
    format \in {"Depth16Unorm", "Depth24Plus", "Depth24PlusStencil8",
                "Depth32Float", "Depth32FloatStencil8"}

\* TextureFormat::sample_type of the backend, for the formats of the model.
FormatSampleType(format) ==
    IF IsDepthFormat(format) THEN "Depth" ELSE "Float"

\* ------------------------------------------------ bind-group layout (4.3)
\* A conversion that wraps every count, zero included.
WrapAnyU64(n) == Some(n)

\* NonZeroU64::new
NonZeroU64(n) == IF n = 0 THEN None ELSE Some(n)

\* The three loops of get_bind_group_layout; st = [i, entries] is the shared
\* counter and the entry list built so far.
RECURSIVE LayoutBuffers(_, _, _)
LayoutBuffers(list, visibility, st) ==
    IF list = <<>> THEN st
    ELSE LayoutBuffers(Tail(list), visibility,
            [i |-> st.i + 1,
             entries |-> Append(st.entries,
                [binding |-> st.i,
                 visibility |-> visibility,
                 ty |-> [class |-> "Buffer", ty |-> "Uniform",
                         has_dynamic_offset |-> FALSE,
                         min_binding_size |-> NonZeroU64(Head(list))]])])

RECURSIVE LayoutTextures(_, _, _)
LayoutTextures(list, visibility, st) ==
    IF list = <<>> THEN st
    ELSE LayoutTextures(Tail(list), visibility,
            [i |-> st.i + 1,
             entries |-> Append(st.entries,
                [binding |-> st.i,
                 visibility |-> visibility,
                 ty |-> [class |-> "Texture", sample_type |-> Head(list),
                         view_dimension |-> "D2", multisampled |-> FALSE]])])

\* The sampler loop with a counter of its own, starting at 0.
IsSamplerEntry(e) == e.ty.class = "Sampler"

RECURSIVE LayoutSamplersOwnCounter(_, _, _)
LayoutSamplersOwnCounter(list, visibility, st) ==
    IF list = <<>> THEN st
    ELSE LayoutSamplersOwnCounter(Tail(list), visibility,
            [i |-> st.i + 1,
             entries |-> Append(st.entries,
                [binding |-> Len(SelectSeq(st.entries, IsSamplerEntry)),
                 visibility |-> visibility,
                 ty |-> [class |-> "Sampler", binding_type |-> Head(list)]])])

RECURSIVE LayoutSamplers(_, _, _)
LayoutSamplers(list, visibility, st) ==
    IF list = <<>> THEN st
    ELSE LayoutSamplers(Tail(list), visibility,
            [i |-> st.i + 1,
             entries |-> Append(st.entries,
                [binding |-> st.i,
                 visibility |-> visibility,
                 ty |-> [class |-> "Sampler", binding_type |-> Head(list)]])])

\* get_bind_group_layout(desc): the entry list of the derived layout.
get_bind_group_layout(desc) ==
    LayoutSamplers(desc.samplers, desc.visibility,
        LayoutTextures(desc.textures, desc.visibility,
            LayoutBuffers(desc.buffers, desc.visibility,
                [i |-> 0, entries |-> <<>>]))).entries

\* ------------------------------------------------- bind groups (4.4)
\* The three loops of create_bind_group; st = [i, entries, panic].  Each
\* handle is resolved by its index alone against the arena of the list it
\* stands in; an index past the end of that arena is a slice-index panic.
RECURSIVE BindBuffers(_, _, _)
BindBuffers(list, arena, st) ==
    IF list = <<>> \/ st.panic # NoPanic THEN st
    ELSE IF Head(list).index >= Len(arena)
    THEN [st EXCEPT !.panic = PanicIndex]
    ELSE BindBuffers(Tail(list), arena,
            [i |-> st.i + 1,
             entries |-> Append(st.entries,
                [binding |-> st.i,
                 resource |-> [class |-> "Buffer", index |-> Head(list).index]]),
             panic |-> NoPanic])

RECURSIVE BindTexturesNoIncrement(_, _, _)
BindTexturesNoIncrement(list, arena, st) ==
    IF list = <<>> \/ st.panic # NoPanic THEN st
    ELSE IF Head(list).index >= Len(arena)
    THEN [st EXCEPT !.panic = PanicIndex]
    ELSE BindTexturesNoIncrement(Tail(list), arena,
            [i |-> st.i,
             entries |-> Append(st.entries,
                [binding |-> st.i,
                 resource |-> [class |-> "Texture", index |-> Head(list).index]]),
             panic |-> NoPanic])

RECURSIVE BindTextures(_, _, _)
BindTextures(list, arena, st) ==
    IF list = <<>> \/ st.panic # NoPanic THEN st
    ELSE IF Head(list).index >= Len(arena)
    THEN [st EXCEPT !.panic = PanicIndex]
    ELSE BindTextures(Tail(list), arena,
            [i |-> st.i + 1,
             entries |-> Append(st.entries,
                [binding |-> st.i,
                 resource |-> [class |-> "Texture", index |-> Head(list).index]]),
             panic |-> NoPanic])

RECURSIVE BindSamplers(_, _, _)
BindSamplers(list, arena, st) ==
    IF list = <<>> \/ st.panic # NoPanic THEN st
    ELSE IF Head(list).index >= Len(arena)
    THEN [st EXCEPT !.panic = PanicIndex]
    ELSE BindSamplers(Tail(list), arena,
            [i |-> st.i + 1,
             entries |-> Append(st.entries,
                [binding |-> st.i,
                 resource |-> [class |-> "Sampler", index |-> Head(list).index]]),
             panic |-> NoPanic])

\* Device::create_bind_group, one entry against its declaration in the layout.
BindingValid(decl, resource, bufs, texs, samps) ==
    /\ decl.ty.class = resource.class
    /\ resource.class = "Buffer" =>
         LET b == bufs[resource.index + 1] IN
         /\ "UNIFORM" \in b.usage
         /\ b.size > 0
         /\ decl.ty.min_binding_size # None =>
                b.size >= decl.ty.min_binding_size[1]
    /\ resource.class = "Texture" =>
         LET t == texs[resource.index + 1] IN
         /\ "TEXTURE_BINDING" \in t.usage
         /\ \/ decl.ty.sample_type = FormatSampleType(t.format)
            \/ decl.ty.sample_type = "UnfilterableFloat"
    /\ resource.class = "Sampler" =>
         LET s == samps[resource.index + 1] IN
         /\ (decl.ty.binding_type = "Comparison") = (s.compare # None)
         /\ decl.ty.binding_type = "NonFiltering" => s.mag_min_filter # "Linear"

\* Device::create_bind_group: the entries must be as many as the layout's,
\* each binding must be declared by the layout, and each resource must fit
\* its declaration.
BindGroupCountOnly(layout, entries, bufs, texs, samps) ==
    Len(entries) = Len(layout)

BindGroupValid(layout, entries, bufs, texs, samps) ==
    /\ Len(entries) = Len(layout)
    /\ \A e \in 1..Len(entries) :
          \E d \in 1..Len(layout) :
             /\ layout[d].binding = entries[e].binding
             /\ BindingValid(layout[d], entries[e].resource, bufs, texs, samps)

\* ------------------------------------------------------------------ state
VARIABLES
    buffers,                    \* ResourceManager.buffers
    textures,                   \* ResourceManager.textures
    samplers,                   \* ResourceManager.samplers
    bind_groups,                \* ResourceManager.bind_groups
    shaders,                    \* ResourceManager.shaders
    shader_compilation_error,   \* ResourceManager.shader_compilation_error
    pipelines_built,            \* render pipelines the device has built so far
    panic,                      \* NoPanic while the process runs, else the panic
    last,                       \* the last call: operation, arguments, result
    issued,                     \* per kind: the handles the creates returned
    reloaded,                   \* what the most recent recompile observed
    frame                       \* the control thread's place in the frame loop

vars == <<buffers, textures, samplers, bind_groups, shaders,
          shader_compilation_error, pipelines_built, panic, last, issued,
          reloaded, frame>>

\* The manager on its own, with no frame loop around it.
NoFrame == [pc |-> "none"]

\* ResourceManager::new
Init ==
    /\ buffers = <<>>
    /\ textures = <<>>
    /\ samplers = <<>>
    /\ bind_groups = <<>>
    /\ shaders = <<>>
    /\ shader_compilation_error = <<>>
    /\ pipelines_built = 0
    /\ panic = NoPanic
    /\ last = [op |-> "new"]
    /\ issued = [k \in HandleType |-> <<>>]
    /\ reloaded = [trial |-> "never"]
    /\ frame = NoFrame

ResourceCount ==
    Len(buffers) + Len(textures) + Len(samplers) + Len(bind_groups) + Len(shaders)

\* The handle a create returns: arena is the arena after the push.
NewHandleOffByOne(arena, kind) == Handle(Len(arena), kind)

NewHandle(arena, kind) == Handle(Len(arena) - 1, kind)

\* The log entry of a create that returned handle for the resource stored.
Issue(handle, stored) ==
    issued' = [issued EXCEPT ![handle.kind] =
                  Append(@, [handle |-> handle, stored |-> stored])]

\* ---------------------------------------------------------------- creates
\* A create_buffer that returns the handle of the next slot and leaves the
\* push out.
CreateBufferWithoutPush(desc) ==
    /\ panic = NoPanic
    /\ last' = [op |-> "create_buffer", desc |-> desc,
                ret |-> Some(Handle(Len(buffers), "BUFFER"))]
    /\ Issue(Handle(Len(buffers), "BUFFER"),
             [size |-> desc.byte_size, usage |-> desc.usage,
              data |-> Zeros(desc.byte_size)])
    /\ UNCHANGED <<buffers, panic, textures, samplers, bind_groups, shaders,
                   shader_compilation_error, pipelines_built, reloaded>>

\* The body of create_buffer(desc).
CreateBuffer(desc) ==
    /\ panic = NoPanic
    /\ LET buffer == [size |-> desc.byte_size, usage |-> desc.usage,
                      data |-> Zeros(desc.byte_size)]
           w == IF desc.initial_data = None
                THEN [panic |-> NoPanic, buffer |-> buffer]
                ELSE WriteBuffer(buffer, desc.initial_data[1])
       IN IF w.panic # NoPanic
          THEN /\ panic' = w.panic
               /\ last' = [op |-> "create_buffer", desc |-> desc, ret |-> None]
               /\ UNCHANGED <<buffers, issued>>
          ELSE /\ buffers' = Append(buffers, w.buffer)
               /\ last' = [op |-> "create_buffer", desc |-> desc,
                           ret |-> Some(NewHandle(buffers', "BUFFER"))]
               /\ Issue(NewHandle(buffers', "BUFFER"), w.buffer)
               /\ UNCHANGED panic
    /\ UNCHANGED <<textures, samplers, bind_groups, shaders,
                   shader_compilation_error, pipelines_built, reloaded>>

create_buffer(desc) ==
    /\ ResourceCount < MaxResources
    /\ CreateBuffer(desc)

\* create_texture: mip_level_count, desc.mipmaps.unwrap_or(0) + 1 (None: the
\* addition overflows).
MipLevelCount(desc) ==
    CheckedAddOne(IF desc.mipmaps = None THEN ToU32(0) ELSE desc.mipmaps[1])

\* The number of mip levels a texture whose larger side is n can have.
RECURSIVE MaxMipLevels(_)
MaxMipLevels(n) == IF n <= 1 THEN 1 ELSE 1 + MaxMipLevels(n \div 2)

\* main: the features the device is requested with, Features::empty().
DeviceFeatures == {}

\* TextureFormat::required_features of the backend, for the formats of the
\* model.
RequiredFeatures(format) ==
    IF format = "Depth32FloatStencil8" THEN {"DEPTH32FLOAT_STENCIL8"} ELSE {}

\* The backend's rule for the destination of a copy that names all aspects:
\* the depth aspect of these formats cannot be written.
CopyDstForbidden(format) ==
    format \in {"Depth24Plus", "Depth24PlusStencil8", "Depth32Float",
                "Depth32FloatStencil8"}

\* Device::create_texture: the backend rejects a format whose feature the
\* device lacks, a texture without extent or without usage, or with more
\* mip levels than its extent has.  The rejection is a validation error
\* raised outside any error scope.
TextureDescriptorValid(desc) ==
    /\ RequiredFeatures(desc.format) \subseteq DeviceFeatures
    /\ desc.dimensions[1] > 0
    /\ desc.dimensions[2] > 0
    /\ desc.usage # {}
    /\ MipLevelCount(desc) # None
    /\ MipLevelCount(desc)[1].hi = 0
    /\ MipLevelCount(desc)[1].lo >= 1
    /\ MipLevelCount(desc)[1].lo <=
          MaxMipLevels(IF desc.dimensions[1] >= desc.dimensions[2]
                       THEN desc.dimensions[1] ELSE desc.dimensions[2])

\* Queue::write_texture of one full image of dimensions at bpp bytes per
\* pixel: the texture must allow COPY_DST, its format must be one a copy
\* can write, and data must hold the image.
WriteTextureValid(desc, bpp) ==
    /\ "COPY_DST" \in desc.usage
    /\ ~CopyDstForbidden(desc.format)
    /\ Len(desc.initial_data[1]) >= bpp * desc.dimensions[1] * desc.dimensions[2]

\* create_texture up to the push (see CreateTextureFault), with a
\* bytes-per-pixel match that has a catch-all stride instead of the panic.
CreateTextureFaultAnyStride(desc) ==
    IF MipLevelCount(desc) = None THEN PanicOverflow
    ELSE IF ~TextureDescriptorValid(desc) THEN PanicWgpu
    ELSE IF desc.initial_data # None /\ ~WriteTextureValid(desc, 4)
    THEN PanicWgpu
    ELSE NoPanic

\* create_texture up to the push: the panic that ends it, or NoPanic.  The
\* mip level count is computed first, with the overflow check of a debug
\* build; then the backend texture and its view are created, then the
\* bytes-per-pixel match runs (with or without initial data), then the upload.
CreateTextureFault(desc) ==
    IF MipLevelCount(desc) = None THEN PanicOverflow
    ELSE IF ~TextureDescriptorValid(desc) THEN PanicWgpu
    ELSE IF BytesPerPixel(desc.format) = None THEN PanicUnsupportedFormat
    ELSE IF /\ desc.initial_data # None
            /\ ~WriteTextureValid(desc, BytesPerPixel(desc.format)[1])
    THEN PanicWgpu
    ELSE NoPanic

\* last.before is the length of the texture arena before the call.
create_texture(desc) ==
    /\ panic = NoPanic
    /\ ResourceCount < MaxResources
    /\ IF CreateTextureFault(desc) # NoPanic
       THEN /\ panic' = CreateTextureFault(desc)
            /\ last' = [op |-> "create_texture", desc |-> desc,
                        before |-> Len(textures), ret |-> None]
            /\ UNCHANGED <<textures, issued>>
       ELSE LET texture == [format |-> desc.format, usage |-> desc.usage,
                            data |-> desc.initial_data,
                            depth |-> IsDepthFormat(desc.format)]
            IN /\ textures' = Append(textures, texture)
               /\ last' = [op |-> "create_texture", desc |-> desc,
                           before |-> Len(textures),
                           ret |-> Some(NewHandle(textures', "TEXTURE"))]
               /\ Issue(NewHandle(textures', "TEXTURE"), texture)
               /\ UNCHANGED panic
    /\ UNCHANGED <<buffers, samplers, bind_groups, shaders,
                   shader_compilation_error, pipelines_built, reloaded>>

create_sampler(desc) ==
    /\ panic = NoPanic
    /\ ResourceCount < MaxResources
    /\ LET sampler == [address_mode |-> desc.address_mode,
                       mag_min_filter |-> desc.mag_min_filter,
                       mipmaps |-> desc.mipmaps,
                       compare |-> desc.compare]
       IN /\ samplers' = Append(samplers, sampler)
          /\ last' = [op |-> "create_sampler", desc |-> desc,
                      ret |-> Some(NewHandle(samplers', "SAMPLER"))]
          /\ Issue(NewHandle(samplers', "SAMPLER"), sampler)
    /\ UNCHANGED <<buffers, textures, bind_groups, shaders,
                   shader_compilation_error, pipelines_built, panic, reloaded>>

\* The body of create_bind_group(desc).  last.before is the length of the
\* bind-group arena before the call and last.layout the layout the call
\* derived from desc.layout (None when a slice index panicked before that).
CreateBindGroup(desc) ==
    /\ panic = NoPanic
    /\ LET st == BindSamplers(desc.samplers, samplers,
                    BindTextures(desc.textures, textures,
                        BindBuffers(desc.buffers, buffers,
                            [i |-> 0, entries |-> <<>>, panic |-> NoPanic])))
           layout == get_bind_group_layout(desc.layout)
           failure ==
               IF st.panic # NoPanic THEN st.panic
               ELSE IF ~BindGroupValid(layout, st.entries, buffers, textures, samplers)
               THEN PanicWgpu
               ELSE NoPanic
       IN IF failure # NoPanic
          THEN /\ panic' = failure
               /\ last' = [op |-> "create_bind_group", desc |-> desc,
                           before |-> Len(bind_groups),
                           layout |-> IF st.panic # NoPanic THEN None
                                      ELSE Some(layout),
                           ret |-> None]
               /\ UNCHANGED <<bind_groups, issued>>
          ELSE LET bind_group == [layout |-> layout, entries |-> st.entries] IN
               /\ bind_groups' = Append(bind_groups, bind_group)
               /\ last' = [op |-> "create_bind_group", desc |-> desc,
                           before |-> Len(bind_groups),
                           layout |-> Some(layout),
                           ret |-> Some(NewHandle(bind_groups', "BINDGROUP"))]
               /\ Issue(NewHandle(bind_groups', "BINDGROUP"), bind_group)
               /\ UNCHANGED panic
    /\ UNCHANGED <<buffers, textures, samplers, shaders,
                   shader_compilation_error, pipelines_built, reloaded>>

create_bind_group(desc) ==
    /\ ResourceCount < MaxResources
    /\ CreateBindGroup(desc)

\* An application of get_bind_group_layout(desc) to a descriptor: the
\* function takes &self, reads nothing of the manager but the device and
\* returns the derived layout.
call_get_bind_group_layout(desc) ==
    /\ panic = NoPanic
    /\ last' = [op |-> "get_bind_group_layout", desc |-> desc,
                layout |-> Some(get_bind_group_layout(desc))]
    /\ UNCHANGED <<buffers, textures, samplers, bind_groups, shaders,
                   shader_compilation_error, pipelines_built, panic, issued,
                   reloaded>>

\* A create_shader that clears the diagnostic string as recompile does.
create_shader_clearing_diagnostic(desc, file) ==
    /\ panic = NoPanic
    /\ ResourceCount < MaxResources
    /\ pipelines_built < MaxPipelines
    /\ LET new == ShaderNew(desc, file, pipelines_built + 1) IN
       IF new.panic # NoPanic
       THEN /\ panic' = new.panic
            /\ last' = [op |-> "create_shader", desc |-> desc, file |-> file,
                        before |-> Len(shaders),
                        diagnostic |-> shader_compilation_error,
                        ret |-> None]
            /\ UNCHANGED <<shaders, issued, pipelines_built,
                           shader_compilation_error>>
       ELSE /\ shaders' = Append(shaders, new.shader[1])
            /\ pipelines_built' = pipelines_built + 1
            /\ shader_compilation_error' = <<>>
            /\ last' = [op |-> "create_shader", desc |-> desc, file |-> file,
                        before |-> Len(shaders),
                        diagnostic |-> shader_compilation_error,
                        ret |-> Some(NewHandle(shaders', "SHADER"))]
            /\ Issue(NewHandle(shaders', "SHADER"), new.shader[1])
            /\ UNCHANGED panic
    /\ UNCHANGED <<buffers, textures, samplers, bind_groups, reloaded>>

\* create_shader(desc), file being the content of desc.vs.path at the call.
\* last.before is the length of the shader arena and last.diagnostic the
\* diagnostic string before the call.
create_shader(desc, file) ==
    /\ panic = NoPanic
    /\ ResourceCount < MaxResources
    /\ pipelines_built < MaxPipelines
    /\ LET new == ShaderNew(desc, file, pipelines_built + 1) IN
       IF new.panic # NoPanic
       THEN /\ panic' = new.panic
            /\ last' = [op |-> "create_shader", desc |-> desc, file |-> file,
                        before |-> Len(shaders),
                        diagnostic |-> shader_compilation_error,
                        ret |-> None]
            /\ UNCHANGED <<shaders, issued, pipelines_built>>
       ELSE /\ shaders' = Append(shaders, new.shader[1])
            /\ pipelines_built' = pipelines_built + 1
            /\ last' = [op |-> "create_shader", desc |-> desc, file |-> file,
                        before |-> Len(shaders),
                        diagnostic |-> shader_compilation_error,
                        ret |-> Some(NewHandle(shaders', "SHADER"))]
            /\ Issue(NewHandle(shaders', "SHADER"), new.shader[1])
            /\ UNCHANGED panic
    /\ UNCHANGED <<buffers, textures, samplers, bind_groups,
                   shader_compilation_error, reloaded>>

\* -------------------------------------------------------------- accessors
\* The kind check of an accessor.
KindNeverMismatches(handle, kind) == FALSE

KindMismatch(handle, kind) == handle.kind # kind

\* An accessor on arena: the kind check (its panic is text), then the slice
\* index.  Result: [panic |-> text, ret |-> Option<resource>].
LookupNewest(arena, handle, kind, text) ==
    IF KindMismatch(handle, kind) THEN [panic |-> text, ret |-> None]
    ELSE IF handle.index >= Len(arena) THEN [panic |-> PanicIndex, ret |-> None]
    ELSE [panic |-> NoPanic, ret |-> Some(arena[Len(arena)])]

Lookup(arena, handle, kind, text) ==
    IF KindMismatch(handle, kind) THEN [panic |-> text, ret |-> None]
    ELSE IF handle.index >= Len(arena) THEN [panic |-> PanicIndex, ret |-> None]
    ELSE [panic |-> NoPanic, ret |-> Some(arena[handle.index + 1])]

\* An accessor call: it changes nothing of the manager.
Access(op, handle, result) ==
    /\ panic = NoPanic
    /\ last' = [op |-> op, handle |-> handle, ret |-> result.ret]
    /\ panic' = result.panic
    /\ UNCHANGED <<buffers, textures, samplers, bind_groups, shaders,
                   shader_compilation_error, pipelines_built, issued, reloaded>>

get_buffer(handle) ==
    Access("get_buffer", handle, Lookup(buffers, handle, "BUFFER", PanicHandleType))

get_texture(handle) ==
    Access("get_texture", handle, Lookup(textures, handle, "TEXTURE", PanicHandleType))

get_shader(handle) ==
    Access("get_shader", handle, Lookup(shaders, handle, "SHADER", PanicHandleType))

get_bind_group(handle) ==
    Access("get_bind_group", handle,
           Lookup(bind_groups, handle, "BINDGROUP", PanicBindGroupHandleType))

\* ------------------------------------------------------------ update path
\* update_buffer(handle, data): the handle's index is used as it is.
update_buffer(handle, data) ==
    /\ panic = NoPanic
    /\ last' = [op |-> "update_buffer", handle |-> handle, data |-> data]
    /\ IF handle.index >= Len(buffers)
       THEN /\ panic' = PanicIndex
            /\ UNCHANGED buffers
       ELSE LET w == WriteBuffer(buffers[handle.index + 1], data) IN
            /\ panic' = w.panic
            /\ buffers' = [buffers EXCEPT ![handle.index + 1] = w.buffer]
    /\ UNCHANGED <<textures, samplers, bind_groups, shaders,
                   shader_compilation_error, pipelines_built, issued, reloaded>>

\* ---------------------------------------------------------- recompilation
\* The error pop_error_scope returns for the trial create_shader_module of
\* source: the validation error, captured by the scope, or None.
TrialCompile(source) ==
    IF WgslValid(source) THEN None ELSE Some(ValidationError(source))

\* The log of issued handles after a pipeline was installed at index.
Reissue(index, shader) ==
    issued' = [issued EXCEPT !["SHADER"] =
                  [j \in DOMAIN @ |->
                      IF @[j].handle.index = index
                      THEN [@[j] EXCEPT !.stored = shader] ELSE @[j]]]

\* recompile, the arm Some(err) of the match.
RecompileErrorInstallsBroken(handle, err) ==
    /\ shader_compilation_error' = err
    /\ shaders' = [shaders EXCEPT ![handle.index + 1].internal =
                      [id |-> 0, source |-> "wgsl_syntax_error"]]
    /\ UNCHANGED <<pipelines_built, issued, panic>>

RecompileErrorDropsShader(handle, err) ==
    /\ shader_compilation_error' = err
    /\ shaders' = SubSeq(shaders, 1, Len(shaders) - 1)
    /\ UNCHANGED <<pipelines_built, issued, panic>>

RecompileError(handle, err) ==
    /\ shader_compilation_error' = err
    /\ UNCHANGED <<shaders, pipelines_built, issued, panic>>

\* recompile, the arm None of the match: the diagnostic is cleared, then
\* Shader::new rebuilds from the retained descriptor and either panics or
\* returns the shader that is stored at the handle's index.
RecompileNoneKeepsDiagnostic(handle, file) ==
    LET new == ShaderNew(shaders[handle.index + 1].desc, file, pipelines_built + 1) IN
    /\ UNCHANGED shader_compilation_error
    /\ panic' = new.panic
    /\ IF new.panic # NoPanic
       THEN UNCHANGED <<shaders, pipelines_built, issued>>
       ELSE /\ shaders' = [shaders EXCEPT ![handle.index + 1] = new.shader[1]]
            /\ pipelines_built' = pipelines_built + 1
            /\ Reissue(handle.index, new.shader[1])

RecompileNoneInstallsNothing(handle, file) ==
    /\ shader_compilation_error' = <<>>
    /\ UNCHANGED <<shaders, pipelines_built, issued, panic>>

\* The arm None rebuilding from the source the stored pipeline was built from
\* instead of the source just read.
RecompileNoneFromCache(handle, file) ==
    LET new == ShaderNew(shaders[handle.index + 1].desc,
                         Some(shaders[handle.index + 1].internal.source),
                         pipelines_built + 1) IN
    /\ shader_compilation_error' = <<>>
    /\ panic' = new.panic
    /\ IF new.panic # NoPanic
       THEN UNCHANGED <<shaders, pipelines_built, issued>>
       ELSE /\ shaders' = [shaders EXCEPT ![handle.index + 1] = new.shader[1]]
            /\ pipelines_built' = pipelines_built + 1
            /\ Reissue(handle.index, new.shader[1])

\* The arm None rebuilding from the descriptor of the first shader of the
\* arena instead of the descriptor retained at the handle's index.
RecompileNoneFromFirstDescriptor(handle, file) ==
    LET new == ShaderNew(shaders[1].desc, file, pipelines_built + 1) IN
    /\ shader_compilation_error' = <<>>
    /\ panic' = new.panic
    /\ IF new.panic # NoPanic
       THEN UNCHANGED <<shaders, pipelines_built, issued>>
       ELSE /\ shaders' = [shaders EXCEPT ![handle.index + 1] = new.shader[1]]
            /\ pipelines_built' = pipelines_built + 1
            /\ Reissue(handle.index, new.shader[1])

\* The arm None pushing the rebuilt shader to the end of the arena instead of
\* storing it at the handle's index.
RecompileNonePushes(handle, file) ==
    LET new == ShaderNew(shaders[handle.index + 1].desc, file, pipelines_built + 1) IN
    /\ shader_compilation_error' = <<>>
    /\ panic' = new.panic
    /\ IF new.panic # NoPanic
       THEN UNCHANGED <<shaders, pipelines_built, issued>>
       ELSE /\ shaders' = Append(shaders, new.shader[1])
            /\ pipelines_built' = pipelines_built + 1
            /\ UNCHANGED issued

RecompileNone(handle, file) ==
    LET new == ShaderNew(shaders[handle.index + 1].desc, file, pipelines_built + 1) IN
    /\ shader_compilation_error' = <<>>
    /\ panic' = new.panic
    /\ IF new.panic # NoPanic
       THEN UNCHANGED <<shaders, pipelines_built, issued>>
       ELSE /\ shaders' = [shaders EXCEPT ![handle.index + 1] = new.shader[1]]
            /\ pipelines_built' = pipelines_built + 1
            /\ Reissue(handle.index, new.shader[1])

\* recompile(handle).  The call reads the shader's source path twice: file is
\* what read_to_string returns for the trial compile inside the error scope,
\* reread is what the read inside Shader::new returns after block_on of
\* pop_error_scope (None: the read fails).  The handle's index is used as
\* it is.  last.before is the shader stored at the index before the call,
\* last.reread is Some(the second read), or None when the call does not
\* reach Shader::new, and last.previous is what the recompile before this
\* one observed.
recompile(handle, file, reread) ==
    /\ panic = NoPanic
    /\ pipelines_built < MaxPipelines
    /\ IF handle.index >= Len(shaders) \/ file = None
       THEN /\ panic' = IF handle.index >= Len(shaders) THEN PanicIndex
                        ELSE PanicUnwrap
            /\ last' = [op |-> "recompile", handle |-> handle, file |-> file,
                        reread |-> None,
                        trial |-> "unreached", before |-> None,
                        previous |-> reloaded]
            /\ UNCHANGED <<shaders, shader_compilation_error, pipelines_built,
                           issued, reloaded>>
       ELSE LET result == TrialCompile(file[1]) IN
            /\ last' = [op |-> "recompile", handle |-> handle, file |-> file,
                        reread |-> IF result = None THEN Some(reread) ELSE None,
                        trial |-> IF result = None THEN "none" ELSE "error",
                        before |-> Some(shaders[handle.index + 1]),
                        previous |-> reloaded]
            /\ reloaded' = [trial |-> IF result = None THEN "none" ELSE "error",
                            handle |-> handle, source |-> file[1]]
            /\ IF result # None
               THEN RecompileError(handle, result[1])
               ELSE RecompileNone(handle, reread)
    /\ UNCHANGED <<buffers, textures, samplers, bind_groups>>

\* ----------------------------------------------------------------- inputs
\* All sequences over S of length at most n.
SeqsUpTo(S, n) == UNION {[1..k -> S] : k \in 0..n}

Bytes(n, b) == [i \in 1..n |-> b]

BufferDescs ==
    {[byte_size |-> s, usage |-> {"UNIFORM", "COPY_DST"}, initial_data |-> d]
        : s \in {4, 8}, d \in {None, Some(Bytes(4, 7))}}
      \ {[byte_size |-> 8, usage |-> {"UNIFORM", "COPY_DST"},
          initial_data |-> Some(Bytes(4, 7))]}

UpdateData == {Bytes(4, 9), Bytes(8, 9)}

TextureDescs ==
    {[format |-> f, dimensions |-> <<1, 1>>, mipmaps |-> None,
      usage |-> {"TEXTURE_BINDING", "RENDER_ATTACHMENT"}, initial_data |-> None]
        : f \in {"Rgba8UnormSrgb", "Depth32Float", "Bgra8UnormSrgb"}}

SamplerDescs ==
    {[address_mode |-> "Repeat", mag_min_filter |-> "Linear", mipmaps |-> None,
      compare |-> c] : c \in {None, Some("LessEqual")}}

\* What read_to_string returns: None when the read fails.
Files == {None} \cup {Some(text) : text \in SourceTexts}

\* The two reads of one recompile call: the file as it is when nothing edits
\* it during the call, and the file broken or removed between the reads.
ReadPairs ==
    {<<file, file>> : file \in Files}
    \cup {<<Some("wgsl_rev2"), Some("wgsl_syntax_error")>>,
          <<Some("wgsl_rev2"), None>>}

\* Bind-group layout descriptors with at most n entries.
LayoutDescs(n) ==
    {[visibility |-> "VERTEX_FRAGMENT", buffers |-> b, textures |-> t,
      samplers |-> s]
        : b \in SeqsUpTo({4}, n), t \in SeqsUpTo({"Float"}, n),
          s \in SeqsUpTo({"Filtering"}, n)}

Total(d) == Len(d.buffers) + Len(d.textures) + Len(d.samplers)

\* Bind-group descriptors: a layout of at most n entries and at most n
\* handles, each handle of its list's kind with an index in indices.
BindGroupDescs(n, indices) ==
    {[layout |-> l, buffers |-> b, textures |-> t, samplers |-> s]
        : l \in {x \in LayoutDescs(n) : Total(x) <= n},
          b \in SeqsUpTo({Handle(i, "BUFFER") : i \in indices}, n),
          t \in SeqsUpTo({Handle(i, "TEXTURE") : i \in indices}, n),
          s \in SeqsUpTo({Handle(i, "SAMPLER") : i \in indices}, n)}

\* The bind-group descriptors given to create_bind_group.
BindGroupInputs ==
    {d \in BindGroupDescs(MaxEntries, {0}) : Total(d) <= MaxEntries}

\* ------------------------------------------------------ the whole manager
Next ==
    \/ \E desc \in BufferDescs : create_buffer(desc)
          /\ UNCHANGED frame
    \/ \E desc \in TextureDescs : create_texture(desc)
          /\ UNCHANGED frame
    \/ \E desc \in SamplerDescs : create_sampler(desc)
          /\ UNCHANGED frame
    \/ \E desc \in BindGroupInputs : create_bind_group(desc)
          /\ UNCHANGED frame
    \/ \E desc \in ShaderDescs, file \in Files : create_shader(desc, file)
          /\ UNCHANGED frame
    \/ \E handle \in Handles : get_buffer(handle)
          /\ UNCHANGED frame
    \/ \E handle \in Handles : get_texture(handle)
          /\ UNCHANGED frame
    \/ \E handle \in Handles : get_shader(handle)
          /\ UNCHANGED frame
    \/ \E handle \in Handles : get_bind_group(handle)
          /\ UNCHANGED frame
    \/ \E handle \in UntypedHandles, data \in UpdateData :
          update_buffer(handle, data)
          /\ UNCHANGED frame
    \/ \E handle \in UntypedHandles, reads \in ReadPairs :
          recompile(handle, reads[1], reads[2])
          /\ UNCHANGED frame

Spec == Init /\ [][Next]_vars

\* ---------------------------------------------- bind groups over resources
\* A manager that has created one uniform buffer, two textures and one
\* sampler, in the state the creates left it in.
CreatedBuffers ==
    <<[size |-> 8, usage |-> {"UNIFORM", "COPY_DST"}, data |-> Zeros(8)]>>

CreatedTextures(format) ==
    <<[format |-> "Rgba8UnormSrgb", usage |-> {"TEXTURE_BINDING"},
       data |-> None, depth |-> FALSE],
      [format |-> format, usage |-> {"TEXTURE_BINDING"},
       data |-> None, depth |-> IsDepthFormat(format)]>>

CreatedSamplers ==
    <<[address_mode |-> "Repeat", mag_min_filter |-> "Linear",
       mipmaps |-> None, compare |-> None]>>

\* The handles the creates of arena returned.
IssuedFor(arena, kind) ==
    [j \in 1..Len(arena) |-> [handle |-> Handle(j - 1, kind), stored |-> arena[j]]]

InitBind ==
    /\ buffers = CreatedBuffers
    /\ textures \in {CreatedTextures("Rgba16Float"), CreatedTextures("Depth32Float")}
    /\ samplers = CreatedSamplers
    /\ bind_groups = <<>>
    /\ shaders = <<>>
    /\ shader_compilation_error = <<>>
    /\ pipelines_built = 0
    /\ panic = NoPanic
    /\ last = [op |-> "new"]
    /\ issued = [k \in HandleType |->
                   CASE k = "BUFFER" -> IssuedFor(buffers, k)
                     [] k = "TEXTURE" -> IssuedFor(textures, k)
                     [] k = "SAMPLER" -> IssuedFor(samplers, k)
                     [] OTHER -> <<>>]
    /\ reloaded = [trial |-> "never"]
    /\ frame = NoFrame

\* The layout descriptor a caller writes for b buffers of 4 bytes, t float
\* textures and s filtering samplers.
LayoutFor(b, t, s) ==
    [visibility |-> "VERTEX_FRAGMENT", buffers |-> [j \in 1..b |-> 4],
     textures |-> [j \in 1..t |-> "Float"],
     samplers |-> [j \in 1..s |-> "Filtering"]]

\* The textures lists of at most n handles a caller passes: handles of the
\* second texture, the last of them possibly replaced by the handle of the
\* sampler, as CrytekSSAO::new passes it.
TextureLists(n) ==
    LET proper == SeqsUpTo({Handle(1, "TEXTURE")}, n) IN
    proper \cup {[t EXCEPT ![Len(t)] = Handle(0, "SAMPLER")] : t \in proper \ {<<>>}}

\* Bind-group descriptors of at most n handles whose three lists are as long
\* as the lists of the layout descriptor.
MatchingBindGroupDescs(n) ==
    {[layout |-> LayoutFor(Len(b), Len(t), Len(s)),
      buffers |-> b, textures |-> t, samplers |-> s]
        : b \in SeqsUpTo({Handle(0, "BUFFER")}, n),
          t \in TextureLists(n),
          s \in SeqsUpTo({Handle(0, "SAMPLER")}, n)}

MatchingBindGroupInputs ==
    {d \in MatchingBindGroupDescs(MaxBindEntries) : Total(d) <= MaxBindEntries}

NextBind ==
    \/ \E desc \in MatchingBindGroupInputs :
          /\ Len(bind_groups) < MaxBindGroups
          /\ CreateBindGroup(desc)
          /\ UNCHANGED frame

SpecBind == InitBind /\ [][NextBind]_vars

\* ------------------------------------------------------ layout derivation
\* Layout descriptors with at most n entries: buffer sizes 0 and 8, both
\* texture sample types the application uses, both sampler classes.
WideLayoutDescs(n) ==
    {[visibility |-> v, buffers |-> b, textures |-> t, samplers |-> s]
        : v \in {"FRAGMENT", "VERTEX_FRAGMENT"},
          b \in SeqsUpTo({0, 8}, n), t \in SeqsUpTo({"Float", "Depth"}, n),
          s \in SeqsUpTo({"Filtering", "Comparison"}, n)}

WideLayoutInputs ==
    {d \in WideLayoutDescs(MaxLayoutEntries) : Total(d) <= MaxLayoutEntries}

NextLayout ==
    \E desc \in WideLayoutInputs : call_get_bind_group_layout(desc)
          /\ UNCHANGED frame

SpecLayout == Init /\ [][NextLayout]_vars

\* --------------------------------------------------------- texture creation
\* Texture descriptors over the formats of the stride table, the depth
\* formats and the surface format, with and without extent and initial
\* data, without mip chain, with one further mip level and with the largest
\* count a u32 holds.
AllTextureDescs ==
    {[format |-> f, dimensions |-> d, mipmaps |-> m,
      usage |-> {"TEXTURE_BINDING", "COPY_DST"}, initial_data |-> i]
        : f \in {"Rgba8UnormSrgb", "Depth32Float", "Rgba16Float", "Depth16Unorm",
                 "Depth24Plus", "Depth24PlusStencil8", "Depth32FloatStencil8",
                 "Bgra8UnormSrgb"},
          d \in {<<0, 0>>, <<1, 1>>, <<2, 1>>},
          i \in {None, Some(Bytes(8, 1))},
          m \in {None, Some(ToU32(1)), Some(U32Max)}}

TextureHandles == {h \in Handles : h.kind = "TEXTURE"}

NextTexture ==
    \/ \E desc \in AllTextureDescs :
          /\ Len(textures) < MaxTextures
          /\ create_texture(desc)
          /\ UNCHANGED frame
    \/ \E handle \in TextureHandles : get_texture(handle)
          /\ UNCHANGED frame

SpecTexture == Init /\ [][NextTexture]_vars

\* ================================================================ claims
\* What a recompile call that reached pop_error_scope read and built on.
ReloadIndex == last.handle.index + 1

\* C1: when recompile(h) observes a validation error for the re-read source,
\* the call returns and the shader (descriptor and pipeline) stored under h
\* is the one that was stored before the call, so a draw through h uses the
\* identical pipeline before and after the failed recompile.
C1_FailedRecompileKeepsPipeline ==
    (last.op = "recompile" /\ last.trial = "error") =>
        /\ panic = NoPanic
        /\ shaders[ReloadIndex] = last.before[1]
        /\ last.handle.kind = "SHADER" =>
              Lookup(shaders, last.handle, "SHADER", PanicHandleType).ret
                 = last.before

\* C1 witness: a failed recompile of a shader whose pipeline was built from
\* the first revision of its source.
C1_Witness ==
    /\ last.op = "recompile"
    /\ last.trial = "error"
    /\ last.file = Some("wgsl_syntax_error")
    /\ last.handle.kind = "SHADER"
    /\ shaders[ReloadIndex].internal.source = "wgsl_rev1"

\* C2 (as claimed): when recompile(h) observes no validation error, the
\* pipeline stored at h's index is a new one, rebuilt from the retained
\* descriptor and the source the rebuild read; h and the length of the
\* shader arena are unchanged and get_shader(h) returns the new pipeline.
C2_SuccessfulRecompileReplaces ==
    (last.op = "recompile" /\ last.trial = "none" /\ last.handle.kind = "SHADER") =>
        /\ last.reread[1] # None
        /\ shaders[ReloadIndex].internal.source = last.reread[1][1]
        /\ shaders[ReloadIndex].internal # last.before[1].internal
        /\ shaders[ReloadIndex].desc = last.before[1].desc
        /\ Len(shaders) = Len(issued["SHADER"])
        /\ Lookup(shaders, last.handle, "SHADER", PanicHandleType).ret
              = Some(shaders[ReloadIndex])

\* C3 (as claimed): a recompile whose re-read source cannot produce a working
\* pipeline, at the trial compile or at the pipeline rebuild, returns
\* normally with the failure in the diagnostic string and the prior pipeline
\* retained.
C3_RecompileAlwaysRecoverable ==
    (/\ last.op = "recompile"
     /\ last.trial # "unreached"
     /\ last.handle.kind = "SHADER"
     /\ ~(WgslValid(last.file[1]) /\ PipelineValid(last.before[1].desc, last.file[1])))
    => /\ panic = NoPanic
       /\ shader_compilation_error # <<>>
       /\ shaders[ReloadIndex] = last.before[1]

\* C4: the manager's one diagnostic string is what the most recent recompile
\* (on any handle) made it: empty if that call observed no validation error,
\* that call's own non-empty message if it observed one; earlier messages
\* are overwritten, never accumulated.
C4_DiagnosticOfLastRecompile ==
    /\ reloaded.trial = "never" => shader_compilation_error = <<>>
    /\ reloaded.trial = "none" => shader_compilation_error = <<>>
    /\ reloaded.trial = "error" =>
          /\ shader_compilation_error = ValidationError(reloaded.source)
          /\ shader_compilation_error # <<>>

\* C4 witness: a successful recompile of one shader has cleared the message
\* that a failed recompile of another shader had left.
C4_Witness ==
    /\ last.op = "recompile"
    /\ last.trial = "none"
    /\ panic = NoPanic
    /\ last.previous.trial = "error"
    /\ last.previous.handle.index # last.handle.index
    /\ last.previous.handle.kind = "SHADER"
    /\ last.handle.kind = "SHADER"
    /\ shader_compilation_error = <<>>

\* C5: create_shader with valid source, source edited to invalid,
\* recompile(h), source edited back to valid, recompile(h): after the first
\* recompile the diagnostic is non-empty and the pipeline is the one that was
\* installed; after the second the diagnostic is empty and a new pipeline,
\* built from the valid source, is installed under the same h.  (Valid: the
\* source compiles and provides the descriptor's entry points, as it did at
\* create_shader; invalid: the source fails validation; the file is not
\* edited while a recompile runs, so both reads of a call return the same
\* text.)
C5_EditReloadFixReload ==
    /\ (last.op = "recompile" /\ last.trial = "error") =>
          /\ panic = NoPanic
          /\ shader_compilation_error # <<>>
          /\ shaders[ReloadIndex].internal = last.before[1].internal
    /\ (/\ last.op = "recompile"
        /\ last.trial = "none"
        /\ last.reread = Some(last.file)
        /\ PipelineValid(last.before[1].desc, last.file[1])
        /\ last.previous.trial = "error"
        /\ last.previous.handle = last.handle)
       => /\ panic = NoPanic
          /\ shader_compilation_error = <<>>
          /\ shaders[ReloadIndex].internal.id # last.before[1].internal.id
          /\ shaders[ReloadIndex].internal.id = pipelines_built
          /\ shaders[ReloadIndex].internal.source = last.file[1]
          /\ shaders[ReloadIndex].desc = last.before[1].desc

\* C5 witness: the second recompile of the scenario has returned; the source
\* was edited back to the very text the shader was created from.
C5_Witness ==
    /\ last.op = "recompile"
    /\ last.trial = "none"
    /\ panic = NoPanic
    /\ last.previous.trial = "error"
    /\ last.previous.handle = last.handle
    /\ last.handle.kind = "SHADER"
    /\ last.file = Some(last.before[1].internal.source)
    /\ last.reread = Some(last.file)
    /\ shaders[ReloadIndex].internal.id > last.before[1].internal.id
    /\ shader_compilation_error = <<>>

\* C6: the index of every handle a create returned is the number of
\* resources of its kind created before that call: per kind the indices are
\* 0, 1, 2, ... in creation order, so none is issued twice, and the handle
\* carries the kind of the create.
C6_HandlesCountCreations ==
    \A k \in HandleType :
        \A j \in 1..Len(issued[k]) : issued[k][j].handle = Handle(j - 1, k)

\* C6 witness: a second texture was created and got index 1, the number of
\* textures created before it.
C6_Witness ==
    /\ last.op = "create_texture"
    /\ last.ret = Some(Handle(1, "TEXTURE"))
    /\ Len(issued["TEXTURE"]) = 2

\* The kind an accessor serves.
AccessorKind(op) ==
    CASE op = "get_buffer" -> "BUFFER"
      [] op = "get_texture" -> "TEXTURE"
      [] op = "get_shader" -> "SHADER"
      [] op = "get_bind_group" -> "BINDGROUP"

Accessors == {"get_buffer", "get_texture", "get_shader", "get_bind_group"}

\* The arena an accessor reads.
ArenaOf(k) ==
    CASE k = "BUFFER" -> buffers
      [] k = "TEXTURE" -> textures
      [] k = "SAMPLER" -> samplers
      [] k = "BINDGROUP" -> bind_groups
      [] k = "SHADER" -> shaders

\* C7: an accessor called with a handle of another kind ends in the
\* kind-mismatch panic and returns no resource, whatever the index, also an
\* index that is in range for the accessor's arena.
C7_WrongKindFaults ==
    (last.op \in Accessors /\ last.handle.kind # AccessorKind(last.op)) =>
        /\ panic \in {PanicHandleType, PanicBindGroupHandleType}
        /\ last.ret = None

\* C7 witness: get_buffer was called with a Texture handle whose index is in
\* range for the buffer arena.
C7_Witness ==
    /\ last.op = "get_buffer"
    /\ last.handle.kind = "TEXTURE"
    /\ last.handle.index < Len(buffers)
    /\ last.handle.index < Len(textures)

\* The accessor for kind k applied to handle in the current state.
Get(k, handle) ==
    Lookup(ArenaOf(k), handle, k,
           IF k = "BINDGROUP" THEN PanicBindGroupHandleType ELSE PanicHandleType)

\* The resource an accessor returns is the one stored: the same object with
\* the same fixed attributes (a buffer's bytes may have been rewritten).
SameResource(k, got, stored) ==
    IF k = "BUFFER"
    THEN got.size = stored.size /\ got.usage = stored.usage
    ELSE got = stored

\* C8: a handle returned by create_<kind> carries that kind, and in every
\* later state of the running process the matching accessor on it succeeds
\* and returns the resource the create stored at that index (for a shader:
\* the shader most recently installed at that index).
C8_CreateThenGet ==
    panic = NoPanic =>
        \A k \in {"BUFFER", "TEXTURE", "BINDGROUP", "SHADER"} :
            \A j \in 1..Len(issued[k]) :
                /\ issued[k][j].handle.kind = k
                /\ Get(k, issued[k][j].handle).panic = NoPanic
                /\ SameResource(k, Get(k, issued[k][j].handle).ret[1],
                                issued[k][j].stored)

\* C8 witness: an accessor returned the first of two different buffers after
\* the second was created and the first was rewritten.
C8_Witness ==
    /\ last.op = "get_buffer"
    /\ panic = NoPanic
    /\ last.handle = Handle(0, "BUFFER")
    /\ Len(buffers) = 2
    /\ buffers[1].size # buffers[2].size
    /\ last.ret[1].data # Zeros(last.ret[1].size)
    /\ last.ret[1].size = issued["BUFFER"][1].stored.size

\* C9: no step shortens an arena.
C9_ArenasNeverShrink ==
    [][/\ Len(buffers') >= Len(buffers)
       /\ Len(textures') >= Len(textures)
       /\ Len(samplers') >= Len(samplers)
       /\ Len(bind_groups') >= Len(bind_groups)
       /\ Len(shaders') >= Len(shaders)]_vars

\* C9 witness: a failed recompile has returned with two shaders in the arena.
C9_Witness ==
    /\ last.op = "recompile"
    /\ last.trial = "error"
    /\ Len(shaders) = 2

\* The three handle lists of a bind-group descriptor are as long as the
\* three lists of its layout descriptor.
ListLengthsMatch(desc) ==
    /\ Len(desc.buffers) = Len(desc.layout.buffers)
    /\ Len(desc.textures) = Len(desc.layout.textures)
    /\ Len(desc.samplers) = Len(desc.layout.samplers)

\* C10: create_bind_group with a buffers, textures or samplers list whose
\* length differs from the layout descriptor's ends in a panic, returns no
\* handle and leaves the bind-group arena as it was, also when the total
\* number of handles equals the layout's number of entries.
C10_LengthMismatchFails ==
    (last.op = "create_bind_group" /\ ~ListLengthsMatch(last.desc)) =>
        /\ panic # NoPanic
        /\ last.ret = None
        /\ Len(bind_groups) = last.before
        /\ Len(issued["BINDGROUP"]) = last.before

\* C10 witness: the lists differ, the totals agree and every handle resolved,
\* so that the backend's validation refused the bind group.
C10_Witness ==
    /\ last.op = "create_bind_group"
    /\ ~ListLengthsMatch(last.desc)
    /\ Total(last.desc) = Total(last.desc.layout)
    /\ Total(last.desc) > 0
    /\ panic = PanicWgpu

\* The handles of a bind-group descriptor are handles the creates returned
\* so far (by index: each list is resolved against its own arena).
HandlesInRange(desc) ==
    /\ \A j \in 1..Len(desc.buffers) : desc.buffers[j].index < Len(buffers)
    /\ \A j \in 1..Len(desc.textures) : desc.textures[j].index < Len(textures)
    /\ \A j \in 1..Len(desc.samplers) : desc.samplers[j].index < Len(samplers)

\* The bind group bg binds the handles of desc positionally: buffer j at
\* binding j, texture j at binding B+j, sampler j at binding B+T+j (counting
\* from 0), each the resource at the handle's index, and the derived layout
\* declares the same binding index and resource class for that slot.
BindsPositionally(bg, desc) ==
    LET B == Len(desc.buffers)
        T == Len(desc.textures)
        S == Len(desc.samplers)
        Slot(k, class, handle) ==
            /\ bg.entries[k].binding = k - 1
            /\ bg.entries[k].resource = [class |-> class, index |-> handle.index]
            /\ bg.layout[k].binding = k - 1
            /\ bg.layout[k].ty.class = class
    IN /\ Len(bg.entries) = B + T + S
       /\ Len(bg.layout) = B + T + S
       /\ \A j \in 1..B : Slot(j, "Buffer", desc.buffers[j])
       /\ \A j \in 1..T : Slot(B + j, "Texture", desc.textures[j])
       /\ \A j \in 1..S : Slot(B + T + j, "Sampler", desc.samplers[j])

\* The resource each handle of desc resolves to is one the backend accepts
\* for the slot the layout descriptor declares at that position.
ResourcesFitLayout(desc) ==
    /\ \A j \in 1..Len(desc.buffers) :
          LET b == buffers[desc.buffers[j].index + 1] IN
          /\ "UNIFORM" \in b.usage
          /\ b.size > 0
          /\ b.size >= desc.layout.buffers[j]
    /\ \A j \in 1..Len(desc.textures) :
          LET t == textures[desc.textures[j].index + 1] IN
          /\ "TEXTURE_BINDING" \in t.usage
          /\ (desc.layout.textures[j] = "Depth") = IsDepthFormat(t.format)
    /\ \A j \in 1..Len(desc.samplers) :
          LET s == samplers[desc.samplers[j].index + 1] IN
          (desc.layout.samplers[j] = "Comparison") = (s.compare # None)

\* C11 (as claimed): create_bind_group with handle lists as long as the
\* layout descriptor's three lists always succeeds and binds positionally.
C11_MatchingCountsAlwaysSucceed ==
    (/\ last.op = "create_bind_group"
     /\ ListLengthsMatch(last.desc)
     /\ HandlesInRange(last.desc))
    => /\ panic = NoPanic
       /\ last.ret # None
       /\ BindsPositionally(bind_groups[Len(bind_groups)], last.desc)

\* C11 (amended): create_bind_group with handle lists as long as the layout
\* descriptor's three lists, whose handles resolve to resources the backend
\* accepts for their slots, succeeds and binds positionally: buffer j at
\* binding j, texture j at binding B+j, sampler j at binding B+T+j, the
\* binding index and resource class the derived layout assigns to the slot.
C11_MatchingFitBindsPositionally ==
    (/\ last.op = "create_bind_group"
     /\ ListLengthsMatch(last.desc)
     /\ HandlesInRange(last.desc)
     /\ ResourcesFitLayout(last.desc))
    => /\ panic = NoPanic
       /\ last.ret = Some(Handle(last.before, "BINDGROUP"))
       /\ Len(bind_groups) = last.before + 1
       /\ BindsPositionally(bind_groups[Len(bind_groups)], last.desc)

\* C11 witness: a bind group of one buffer, one texture and one sampler was
\* created; they are bound at bindings 0, 1 and 2.
C11_Witness ==
    /\ last.op = "create_bind_group"
    /\ Len(last.desc.buffers) = 1
    /\ last.desc.textures = <<Handle(1, "TEXTURE")>>
    /\ Len(last.desc.samplers) = 1
    /\ last.ret # None
    /\ bind_groups[Len(bind_groups)].entries[2] =
          [binding |-> 1, resource |-> [class |-> "Texture", index |-> 1]]
    /\ bind_groups[Len(bind_groups)].entries[3].binding = 2

\* Some handle of a bind-group descriptor stands in the list of another kind.
WrongKindInList(desc) ==
    \/ \E j \in 1..Len(desc.buffers) : desc.buffers[j].kind # "BUFFER"
    \/ \E j \in 1..Len(desc.textures) : desc.textures[j].kind # "TEXTURE"
    \/ \E j \in 1..Len(desc.samplers) : desc.samplers[j].kind # "SAMPLER"

\* C12 (as claimed): a handle placed in the list of the wrong kind (a Sampler
\* handle in the textures list) makes create_bind_group a fatal construction
\* error: no handle is returned, no bind group is stored, and the resource
\* that sits at the same index of the list's arena is never bound.
C12_WrongKindInListFaults ==
    (last.op = "create_bind_group" /\ WrongKindInList(last.desc))
    => /\ panic # NoPanic
       /\ last.ret = None
       /\ Len(bind_groups) = last.before

\* C13 (as claimed): update_buffer called with a handle that is not a Buffer
\* handle, and recompile called with a handle that is not a Shader handle,
\* end in a fatal fault instead of writing to the buffer, or rebuilding the
\* shader, stored at the handle's index.
C13_WrongKindDereferenceFaults ==
    (\/ last.op = "update_buffer" /\ last.handle.kind # "BUFFER"
     \/ last.op = "recompile" /\ last.handle.kind # "SHADER")
    => panic # NoPanic

\* C14: the layout derived from a descriptor with B buffer sizes, T texture
\* sample types and S sampler binding types has exactly B+T+S entries; the
\* entry of buffer j has binding j, of texture j binding B+j, of sampler j
\* binding B+T+j (counting from 0), so the bindings are 0..B+T+S-1 without
\* gap or duplicate, assigned from one counter shared by the three lists.
C14_OneCounterAcrossLists ==
    last.op = "get_bind_group_layout" =>
        LET entries == last.layout[1]
            B == Len(last.desc.buffers)
            T == Len(last.desc.textures)
            S == Len(last.desc.samplers)
        IN /\ Len(entries) = B + T + S
           /\ \A j \in 1..B :
                 entries[j].binding = j - 1 /\ entries[j].ty.class = "Buffer"
           /\ \A j \in 1..T :
                 /\ entries[B + j].binding = B + j - 1
                 /\ entries[B + j].ty.class = "Texture"
           /\ \A j \in 1..S :
                 /\ entries[B + T + j].binding = B + T + j - 1
                 /\ entries[B + T + j].ty.class = "Sampler"
           /\ {entries[k].binding : k \in 1..Len(entries)} = 0..(B + T + S - 1)
           /\ \A k1, k2 \in 1..Len(entries) :
                 entries[k1].binding = entries[k2].binding => k1 = k2

\* C14 witness: a layout was derived from a descriptor with one buffer, one
\* texture and one sampler; the sampler got binding 2.
C14_Witness ==
    /\ last.op = "get_bind_group_layout"
    /\ Len(last.desc.buffers) = 1
    /\ Len(last.desc.textures) = 1
    /\ Len(last.desc.samplers) = 1
    /\ last.layout[1][3].binding = 2
    /\ last.layout[1][3].ty.class = "Sampler"

\* The parts of C15 that do not concern the minimum binding size: every
\* buffer entry is a uniform-buffer binding without dynamic offset, every
\* texture entry a 2-D non-multisampled texture binding of the given sample
\* type, every sampler entry a sampler binding of the given binding type,
\* and all entries carry the descriptor's visibility.
EntryTypesAsDescribed(desc, entries) ==
    LET B == Len(desc.buffers)
        T == Len(desc.textures)
    IN /\ \A k \in 1..Len(entries) : entries[k].visibility = desc.visibility
       /\ \A j \in 1..B :
             /\ entries[j].ty.class = "Buffer"
             /\ entries[j].ty.ty = "Uniform"
             /\ ~entries[j].ty.has_dynamic_offset
       /\ \A j \in 1..T :
             entries[B + j].ty =
                [class |-> "Texture", sample_type |-> desc.textures[j],
                 view_dimension |-> "D2", multisampled |-> FALSE]
       /\ \A j \in 1..Len(desc.samplers) :
             entries[B + T + j].ty =
                [class |-> "Sampler", binding_type |-> desc.samplers[j]]

\* C15 (as claimed): in a derived layout every buffer entry is a
\* uniform-buffer binding whose minimum binding size equals the byte count
\* of the descriptor, for every byte count including 0; texture and sampler
\* entries are as described and all entries carry the visibility.
C15_MinSizeIsByteCount ==
    last.op = "get_bind_group_layout" =>
        /\ EntryTypesAsDescribed(last.desc, last.layout[1])
        /\ \A j \in 1..Len(last.desc.buffers) :
              last.layout[1][j].ty.min_binding_size = Some(last.desc.buffers[j])

\* C15 (amended): as claimed, except that a byte count of 0 yields a buffer
\* entry that declares no minimum binding size; every non-zero byte count is
\* the entry's minimum binding size.
C15_MinSizeIsNonZeroByteCount ==
    last.op = "get_bind_group_layout" =>
        /\ EntryTypesAsDescribed(last.desc, last.layout[1])
        /\ \A j \in 1..Len(last.desc.buffers) :
              LET n == last.desc.buffers[j]
                  min == last.layout[1][j].ty.min_binding_size
              IN /\ n > 0 => min = Some(n)
                 /\ n = 0 => min = None

\* C15 witness: a layout was derived from a descriptor that has a buffer of
\* byte count 0, a buffer of byte count 8, a texture and no sampler.
C15_Witness ==
    /\ last.op = "get_bind_group_layout"
    /\ last.desc.buffers = <<0, 8>>
    /\ last.desc.textures = <<"Depth">>
    /\ last.layout[1][1].ty.min_binding_size = None
    /\ last.layout[1][2].ty.min_binding_size = Some(8)
    /\ last.layout[1][3].ty.sample_type = "Depth"

\* The vertex and fragment modules of a shader descriptor name two files.
CrossFile(desc) == desc.ps # None /\ desc.ps[1].path # desc.vs.path

\* C17: create_shader whose source fails to compile into a pipeline (the
\* text does not validate, or lacks an entry point the descriptor names)
\* ends in a fatal fault: no handle is returned, the shader arena keeps its
\* length and the diagnostic string is what it was before the call.
C17_InitialBuildFailureIsFatal ==
    (/\ last.op = "create_shader"
     /\ last.file # None
     /\ ~(WgslValid(last.file[1]) /\ PipelineValid(last.desc, last.file[1])))
    => /\ panic # NoPanic
       /\ last.ret = None
       /\ Len(shaders) = last.before
       /\ shader_compilation_error = last.diagnostic

\* C17 witness: with one shader built, create_shader of a descriptor whose
\* stages are in one file ended in the backend's validation panic, on a
\* source with a syntax error.
C17_Witness ==
    /\ last.op = "create_shader"
    /\ ~CrossFile(last.desc)
    /\ last.file = Some("wgsl_syntax_error")
    /\ panic = PanicWgpu
    /\ last.before = 1
    /\ Len(shaders) = 1

\* C18: create_shader with a fragment module whose path differs from the
\* vertex module's path ends in the cross-file panic, whether or not the
\* source file could be read, with nothing appended to the shader arena; a
\* descriptor without a fragment module, or with equal paths, never ends in
\* the cross-file panic.
C18_CrossFileRejectedFirst ==
    last.op = "create_shader" =>
        /\ CrossFile(last.desc) =>
              /\ panic = PanicCrossFile
              /\ last.ret = None
              /\ Len(shaders) = last.before
        /\ ~CrossFile(last.desc) => panic # PanicCrossFile

\* C18 witness: a cross-file descriptor was rejected although its source
\* file does not exist.
C18_Witness ==
    /\ last.op = "create_shader"
    /\ CrossFile(last.desc)
    /\ last.file = None
    /\ panic = PanicCrossFile

\* The formats of the bytes-per-pixel table of create_texture, as the claims
\* name them.
StrideTable == {"Rgba8UnormSrgb", "Depth32Float", "Rgba16Float"}

\* C19 (as claimed): create_texture with a format outside the stride table
\* always ends in the unsupported-format panic, with or without initial
\* data, and leaves the texture arena unchanged; with a format inside the
\* table it never ends in that panic.
C19_OutsideTableIsUnsupportedFormat ==
    last.op = "create_texture" =>
        /\ last.desc.format \notin StrideTable =>
              /\ panic = PanicUnsupportedFormat
              /\ last.ret = None
              /\ Len(textures) = last.before
        /\ last.desc.format \in StrideTable => panic # PanicUnsupportedFormat

\* C19 (amended): create_texture with a format outside the stride table
\* always ends in a fatal fault, with or without initial data, and leaves
\* the texture arena unchanged; the fault is the unsupported-format panic
\* whenever the backend accepted the texture descriptor, and otherwise the
\* backend's validation panic or the overflow panic of the mip level count.
\* With a format inside the table it never ends in the unsupported-format
\* panic.
C19_OutsideTableIsFatal ==
    last.op = "create_texture" =>
        /\ last.desc.format \notin StrideTable =>
              /\ panic \in {PanicUnsupportedFormat, PanicWgpu, PanicOverflow}
              /\ TextureDescriptorValid(last.desc) => panic = PanicUnsupportedFormat
              /\ last.ret = None
              /\ Len(textures) = last.before
        /\ last.desc.format \in StrideTable => panic # PanicUnsupportedFormat

\* C19 witness: with one texture created, create_texture of a surface-format
\* texture without initial data ended in the unsupported-format panic.
C19_Witness ==
    /\ last.op = "create_texture"
    /\ last.desc.format = "Bgra8UnormSrgb"
    /\ last.desc.initial_data = None
    /\ last.desc.dimensions = <<1, 1>>
    /\ panic = PanicUnsupportedFormat
    /\ last.before = 1
    /\ Len(textures) = 1

\* C20 (as claimed): for every recognized depth or depth-stencil format
\* create_texture yields a texture whose depth flag is set, for every other
\* format the created texture's flag is not set, and the flag of a stored
\* texture never changes.  (Stated for descriptors the backend accepts,
\* without initial data.)
C20_DepthFormatsYieldDepthTextures ==
    /\ \A j \in 1..Len(textures) :
          textures[j].depth = IsDepthFormat(textures[j].format)
    /\ (/\ last.op = "create_texture"
        /\ TextureDescriptorValid(last.desc)
        /\ last.desc.initial_data = None
        /\ IsDepthFormat(last.desc.format))
       => /\ last.ret # None
          /\ textures[Len(textures)].depth

\* ------------------------------------------------------------ buffer updates
\* Buffer descriptors of 4 and 8 bytes, with and without COPY_DST usage.
WideBufferDescs ==
    {[byte_size |-> s, usage |-> u, initial_data |-> None]
        : s \in {4, 8}, u \in {{"UNIFORM", "COPY_DST"}, {"UNIFORM"}}}

\* The byte slices given to update_buffer: empty, shorter than the alignment,
\* one and two words, and longer than any buffer of the model.
WideUpdateData == {Bytes(0, 9), Bytes(2, 9), Bytes(4, 5), Bytes(8, 9), Bytes(12, 9)}

BufferHandles == {h \in Handles : h.kind = "BUFFER"}

NextBuffer ==
    \/ \E desc \in WideBufferDescs : create_buffer(desc)
          /\ UNCHANGED frame
    \/ \E handle \in UntypedHandles, data \in WideUpdateData :
          update_buffer(handle, data)
          /\ UNCHANGED frame
    \/ \E handle \in BufferHandles : get_buffer(handle)
          /\ UNCHANGED frame

SpecBuffer == Init /\ [][NextBuffer]_vars

\* The step is a call update_buffer(h, bytes) on an index of the buffer arena.
UpdateStep ==
    /\ last'.op = "update_buffer"
    /\ last'.handle.index < Len(buffers)

\* The buffer the step writes to, before the step, and the bytes given.
Target == buffers[last'.handle.index + 1]
Given == last'.data

\* The step overwrote the target from offset 0 with the bytes given, left the
\* bytes beyond them and the size as they were and changed no other buffer.
OverwrittenAtZero ==
    /\ Len(buffers') = Len(buffers)
    /\ \A j \in 1..Len(buffers) :
          IF j = last'.handle.index + 1
          THEN /\ buffers'[j].size = Target.size
               /\ Len(buffers'[j].data) = Target.size
               /\ \A i \in 1..Target.size :
                     buffers'[j].data[i]
                        = IF i <= Len(Given) THEN Given[i] ELSE Target.data[i]
          ELSE buffers'[j] = buffers[j]
    /\ Len(Given) = Target.size =>
          Lookup(buffers', Handle(last'.handle.index, "BUFFER"), "BUFFER",
                 PanicHandleType).ret[1].data = Given

\* C21 (as claimed): update_buffer(h, bytes) with length(bytes) not above the
\* buffer's allocated size overwrites the content from offset 0 with bytes,
\* leaves the bytes beyond and the size unchanged and changes no other buffer;
\* with length(bytes) equal to the allocation a read-back returns bytes.
C21_UpdateWithinSizeOverwrites ==
    [][(UpdateStep /\ Len(Given) <= Target.size) => OverwrittenAtZero]_vars

\* C21 (amended): the same, for a byte length that is a multiple of
\* COPY_BUFFER_ALIGNMENT and a buffer created with COPY_DST usage; the call
\* then returns normally.
C21_AlignedUpdateWithinSizeOverwrites ==
    [][(/\ UpdateStep
        /\ Len(Given) <= Target.size
        /\ Len(Given) % COPY_BUFFER_ALIGNMENT = 0
        /\ "COPY_DST" \in Target.usage)
       => (OverwrittenAtZero /\ panic' = NoPanic)]_vars

\* C21 witness: an update of 4 bytes has overwritten the first half of an
\* 8-byte buffer that an earlier update had filled, next to a second buffer.
C21_Witness ==
    /\ last.op = "update_buffer"
    /\ last.data = Bytes(4, 5)
    /\ panic = NoPanic
    /\ Len(buffers) = 2
    /\ last.handle.index < Len(buffers)
    /\ buffers[last.handle.index + 1].data = <<5, 5, 5, 5, 9, 9, 9, 9>>

\* C22: a call of update_buffer whose byte length exceeds the byte size the
\* buffer was created with is rejected (the call does not return normally)
\* and changes neither the content nor the size of any buffer.
C22_OverrunRejected ==
    [][(UpdateStep /\ Len(Given) > Target.size)
       => (panic' # NoPanic /\ buffers' = buffers)]_vars

\* C22 witness: a write of 12 bytes to a buffer of 8 bytes that allows
\* COPY_DST has ended in the backend's validation panic.
C22_Witness ==
    /\ last.op = "update_buffer"
    /\ Len(last.data) = 12
    /\ last.handle.index < Len(buffers)
    /\ buffers[last.handle.index + 1].size = 8
    /\ "COPY_DST" \in buffers[last.handle.index + 1].usage
    /\ panic = PanicWgpu

\* ---------------------------------------------------------------- hot reload
\* The shader operations alone: create_shader, recompile and get_shader.
ShaderHandles == {h \in Handles : h.kind = "SHADER"}

NextReload ==
    \/ \E desc \in ShaderDescs, file \in Files : create_shader(desc, file)
          /\ UNCHANGED frame
    \/ \E handle \in UntypedHandles, file \in Files, reread \in Files :
          recompile(handle, file, reread)
          /\ UNCHANGED frame
    \/ \E handle \in ShaderHandles : get_shader(handle)
          /\ UNCHANGED frame

SpecReload == Init /\ [][NextReload]_vars

\* C23: each recompile(h) decides on the content its source file has at the
\* time of the call: the diagnostic is determined by the content the call
\* read for the trial compile, and the installed pipeline by the content
\* the rebuild read and the retained descriptor, not by the content read at
\* create_shader or at an earlier recompile.
C23_RecompileDecidesOnCurrentContent ==
    (last.op = "recompile" /\ last.trial # "unreached") =>
        LET source == last.file[1]
            desc == last.before[1].desc
        IN /\ shader_compilation_error =
                 IF WgslValid(source) THEN <<>> ELSE ValidationError(source)
           /\ IF /\ WgslValid(source)
                 /\ last.reread[1] # None
                 /\ WgslValid(last.reread[1][1])
                 /\ PipelineValid(desc, last.reread[1][1])
              THEN /\ panic = NoPanic
                   /\ shaders[ReloadIndex].internal.source = last.reread[1][1]
                   /\ shaders[ReloadIndex].desc = desc
              ELSE shaders[ReloadIndex] = last.before[1]

\* C23 witness: a shader built from the first revision of its file, a failed
\* recompile after an edit that broke the file, then a recompile after an
\* edit to the second revision, which installed a pipeline of that revision.
C23_Witness ==
    /\ last.op = "recompile"
    /\ last.trial = "none"
    /\ panic = NoPanic
    /\ last.before[1].internal.source = "wgsl_rev1"
    /\ last.previous.trial = "error"
    /\ last.previous.handle.index = last.handle.index
    /\ last.file = Some("wgsl_rev2")
    /\ last.reread = Some(last.file)
    /\ shaders[ReloadIndex].internal.source = "wgsl_rev2"

\* C24: the descriptor retained with a compiled shader is the descriptor that
\* was passed to create_shader, after any number of successful or failed
\* recompiles: create_shader stores the descriptor it was given and no step
\* alters the descriptor of a stored shader.
C24_DescriptorRetained ==
    [][/\ \A j \in 1..Len(shaders) :
            /\ j <= Len(shaders')
            /\ shaders'[j].desc = shaders[j].desc
       /\ (last'.op = "create_shader" /\ last'.ret # None) =>
            /\ Len(shaders') = Len(shaders) + 1
            /\ shaders'[Len(shaders')].desc = last'.desc]_vars

\* C24 witness: two shaders of different descriptors; the second has been
\* recompiled with an error and then recompiled successfully.
C24_Witness ==
    /\ Len(shaders) = 2
    /\ shaders[1].desc # shaders[2].desc
    /\ last.op = "recompile"
    /\ last.trial = "none"
    /\ last.handle.index = 1
    /\ last.previous.trial = "error"
    /\ panic = NoPanic
    /\ shaders[2].desc = last.before[1].desc
    /\ shaders[2].internal # last.before[1].internal

\* ---------------------------------------------------------- the frame loop
\* The variables of the manager: everything but the place in the frame.
manager == <<buffers, textures, samplers, bind_groups, shaders,
             shader_compilation_error, pipelines_built, panic, last, issued,
             reloaded>>

\* size_of::<SceneUniformData>(): four Mat4, a Vec3 and an f32.
SceneUniformDataSize == 272
\* size_of::<MeshUniformData>(): a Mat4 and a Vec4.
MeshUniformDataSize == 80
\* size_of::<VertexAttributes>(): two [f32; 3].
VertexAttributesSize == 24

\* The little-endian bytes of the f32 1.0.
F32One == <<0, 0, 128, 63>>

\* bytemuck::cast_slice(&[SceneUniformData::default()]): four identity
\* matrices (column-major, 1.0 on the diagonal), camera_position
\* Vec3::ONE and aspect_ratio 0.0.
SceneUniformDataDefault ==
    [i \in 1..SceneUniformDataSize |->
        LET f == (i - 1) \div 4 IN
        IF (f < 64 /\ (f % 16) % 5 = 0) \/ (f >= 64 /\ f < 67)
        THEN F32One[((i - 1) % 4) + 1]
        ELSE 0]

\* The descriptor Scene::new and Scene::load_gltf pass to create_buffer.
SceneUniformDesc ==
    [byte_size |-> SceneUniformDataSize, usage |-> {"UNIFORM", "COPY_DST"},
     initial_data |-> Some(SceneUniformDataDefault)]

\* Mesh::bind_group_layout
MeshBindGroupLayout ==
    [visibility |-> "ALL", buffers |-> <<MeshUniformDataSize>>,
     textures |-> <<>>, samplers |-> <<>>]

\* The descriptor Renderer::new passes to create_shader; a.wgsl stands for
\* src/shaders/debug_draw.wgsl.
DebugDrawDesc ==
    [vs |-> ShaderModuleDesc("a.wgsl", "vs_main"),
     ps |-> Some(ShaderModuleDesc("a.wgsl", "fs_main")),
     bind_group_layouts |->
        <<[visibility |-> "VERTEX_FRAGMENT",
           buffers |-> <<SceneUniformDataSize>>,
           textures |-> <<>>, samplers |-> <<>>],
          MeshBindGroupLayout>>,
     pipeline_state |->
        [depth_test |-> Some("Less"),
         targets |-> <<"Bgra8UnormSrgb">>,
         vertex_buffer_bindings |->
            <<[array_stride |-> VertexAttributesSize,
               step_mode |-> "Vertex",
               attributes |->
                  <<[shader_location |-> 0, offset |-> 0,
                     format |-> "Float32x3"],
                    [shader_location |-> 1, offset |-> 12,
                     format |-> "Float32x3"]>>]>>]]

\* The uniform bytes Renderer::update writes each frame: two values of
\* bytemuck::cast_slice(&[camera.build_uniforms()]).
CameraUniforms ==
    {Bytes(SceneUniformDataSize, 1), Bytes(SceneUniformDataSize, 2)}

\* The panics of Renderer::ui and Scene::load_gltf.
PanicUnwrapNone == "called Option::unwrap() on a None value"
PanicGltf == "Gltf loading failed"
PanicGltfBuffers == "Buffer loading failed"
PanicIndices == "Couldn't read indices"
PanicPositions == "Couldn't read positions"
PanicNormals == "Couldn't read normals"

\* The number of primitives load_gltf walks in a glTF file: walk_gltf is
\* called for every node of the document and again for every child, so a
\* primitive of a child node counts once for each walk that reaches it.
MaxPrimitives == 1

\* A primitive of a glTF file, as walk_gltf's reader sees it: for each of
\* indices, positions and normals the number of elements, or None when the
\* accessor cannot be read.
Primitive(indices, positions, normals) ==
    [indices |-> indices, positions |-> positions, normals |-> normals]

\* A triangle; a primitive with fewer normals than positions; primitives
\* that lack indices, positions or normals.
Primitives ==
    {Primitive(Some(3), Some(3), Some(3)),
     Primitive(Some(3), Some(3), Some(2)),
     Primitive(None, None, Some(3)),
     Primitive(Some(3), None, Some(3)),
     Primitive(Some(3), Some(3), None)}

\* walk_gltf: the three expect()s on a primitive, in the order of the code.
ReadFault(p) ==
    IF p.indices = None THEN PanicIndices
    ELSE IF p.positions = None THEN PanicPositions
    ELSE IF p.normals = None THEN PanicNormals
    ELSE NoPanic

\* What the click on Load glTF leads to: the dialog is cancelled, the path
\* is not UTF-8, the file cannot be opened as glTF, its buffers cannot be
\* imported, or the document is read, with its primitives in walk order
\* (the walk ends at the first primitive that cannot be read, so only the
\* last primitive of a document is one of those).
GltfPicks ==
    {[result |-> r, primitives |-> <<>>]
        : r \in {"cancelled", "non_utf8", "unreadable", "no_buffers"}}
    \cup {[result |-> "gltf", primitives |-> ps]
            : ps \in {qs \in SeqsUpTo(Primitives, MaxPrimitives) :
                        \A j \in 1..(Len(qs) - 1) : ReadFault(qs[j]) = NoPanic}}

\* walk_gltf: positions.zip(normals) has as many vertices as the shorter of
\* the two.
VertexCount(p) ==
    IF p.positions[1] <= p.normals[1] THEN p.positions[1] ELSE p.normals[1]

\* The bytes of a MeshUniformData: the model matrix of the node and a colour
\* rand::thread_rng() draws; one content stands for them.
MeshUniforms == {Bytes(MeshUniformDataSize, 3)}

\* The descriptors walk_gltf and Mesh::new pass to the manager.
MeshUniformDesc(data) ==
    [byte_size |-> MeshUniformDataSize, usage |-> {"COPY_DST", "UNIFORM"},
     initial_data |-> Some(data)]

VertexBufferDesc(p) ==
    [byte_size |-> VertexCount(p) * VertexAttributesSize,
     usage |-> {"COPY_DST", "VERTEX"},
     initial_data |-> Some(Bytes(VertexCount(p) * VertexAttributesSize, 5))]

IndexBufferDesc(p) ==
    [byte_size |-> p.indices[1] * 4, usage |-> {"COPY_DST", "INDEX"},
     initial_data |-> Some(Bytes(p.indices[1] * 4, 6))]

MeshBindGroupDesc(uniform_buffer) ==
    [layout |-> MeshBindGroupLayout, buffers |-> <<uniform_buffer>>,
     textures |-> <<>>, samplers |-> <<>>]

\* Renderer::update passes self.scene.scene_uniform_bind_group to
\* get_bind_group; Scene has no such field and no code creates a bind group
\* for the scene's uniforms, so the handle is any handle.
SceneBindGroupHandles == Handles

\* The state Renderer::new leaves: the scene's uniform buffer, the depth
\* buffer and the debug-draw shader, built from the first revision of its
\* file; the scene has no meshes; the control thread waits in the event
\* loop.
InitFrame ==
    /\ buffers = <<[size |-> SceneUniformDataSize,
                    usage |-> {"UNIFORM", "COPY_DST"},
                    data |-> SceneUniformDataDefault]>>
    /\ textures = <<[format |-> "Depth32Float", usage |-> {"RENDER_ATTACHMENT"},
                     data |-> None, depth |-> TRUE]>>
    /\ samplers = <<>>
    /\ bind_groups = <<>>
    /\ shaders = <<[desc |-> DebugDrawDesc,
                    internal |-> [id |-> 1, source |-> "wgsl_rev1"]]>>
    /\ shader_compilation_error = <<>>
    /\ pipelines_built = 1
    /\ panic = NoPanic
    /\ last = [op |-> "new"]
    /\ issued = [k \in HandleType |->
                   CASE k = "BUFFER" -> IssuedFor(buffers, k)
                     [] k = "TEXTURE" -> IssuedFor(textures, k)
                     [] k = "SHADER" -> IssuedFor(shaders, k)
                     [] OTHER -> <<>>]
    /\ reloaded = [trial |-> "never"]
    /\ frame = [pc |-> "events", button |-> 0, reloads |-> 0, loads |-> 0,
                scene_uniform |-> Handle(0, "BUFFER"),
                meshes |-> <<>>,
                depth_buffer |-> Handle(0, "TEXTURE"),
                shader |-> Handle(0, "SHADER"),
                gltf |-> <<>>, loaded |-> <<>>, mesh |-> <<>>, cursor |-> 0]

\* main: Event::RedrawRequested; egui runs Renderer::ui, which calls
\* ResourceManager::egui.
RedrawRequested ==
    /\ panic = NoPanic
    /\ frame.pc = "events"
    /\ frame' = [frame EXCEPT !.pc = "ui", !.button = 0, !.reloads = 0]
    /\ UNCHANGED manager

\* ResourceManager::egui, one turn of the loop over the shaders: the Reload
\* button of the shader is not clicked.
ReloadNotClicked ==
    /\ panic = NoPanic
    /\ frame.pc = "ui"
    /\ frame.button < Len(shaders)
    /\ frame' = [frame EXCEPT !.button = @ + 1]
    /\ UNCHANGED manager

\* The Reload button is clicked: the control thread enters recompile.
ReloadClicked ==
    /\ panic = NoPanic
    /\ frame.pc = "ui"
    /\ frame.button < Len(shaders)
    /\ pipelines_built < MaxPipelines
    /\ frame' = [frame EXCEPT !.pc = "recompile"]
    /\ UNCHANGED manager

\* recompile runs and returns to the loop over the shaders (or panics).
RecompileReturns(file, reread) ==
    /\ frame.pc = "recompile"
    /\ recompile(Handle(frame.button, "SHADER"), file, reread)
    /\ frame' = IF panic' # NoPanic THEN frame
                ELSE [frame EXCEPT !.pc = "ui", !.button = @ + 1,
                                   !.reloads = @ + 1]

\* Renderer::ui after ResourceManager::egui: Load glTF is not clicked.
LoadNotClicked ==
    /\ panic = NoPanic
    /\ frame.pc = "ui"
    /\ frame.button = Len(shaders)
    /\ frame' = [frame EXCEPT !.pc = "update"]
    /\ UNCHANGED manager

\* Load glTF is clicked.  A cancelled dialog loads nothing; otherwise
\* Scene::load_gltf opens the file and imports its buffers, each with an
\* expect(), before it makes any call of the manager.
LoadClicked(pick) ==
    /\ panic = NoPanic
    /\ frame.pc = "ui"
    /\ frame.button = Len(shaders)
    /\ frame.loads < MaxLoads
    /\ panic' = CASE pick.result = "non_utf8" -> PanicUnwrapNone
                  [] pick.result = "unreadable" -> PanicGltf
                  [] pick.result = "no_buffers" -> PanicGltfBuffers
                  [] OTHER -> NoPanic
    /\ frame' = CASE pick.result = "cancelled" -> [frame EXCEPT !.pc = "update"]
                  [] pick.result = "gltf" ->
                        [frame EXCEPT !.pc = "load", !.loads = @ + 1,
                                      !.gltf = pick.primitives,
                                      !.loaded = <<>>, !.mesh = <<>>]
                  [] OTHER -> frame
    /\ UNCHANGED <<buffers, textures, samplers, bind_groups, shaders,
                   shader_compilation_error, pipelines_built, last, issued,
                   reloaded>>

\* walk_gltf, the next primitive: its indices, positions and normals are
\* read, each with an expect(), then the uniform buffer of the mesh is
\* created.
LoadMeshUniform(data) ==
    /\ frame.pc = "load"
    /\ frame.gltf # <<>>
    /\ IF ReadFault(Head(frame.gltf)) # NoPanic
       THEN /\ panic = NoPanic
            /\ panic' = ReadFault(Head(frame.gltf))
            /\ frame' = frame
            /\ UNCHANGED <<buffers, textures, samplers, bind_groups, shaders,
                           shader_compilation_error, pipelines_built, last,
                           issued, reloaded>>
       ELSE /\ CreateBuffer(MeshUniformDesc(data))
            /\ frame' = IF panic' # NoPanic THEN frame
                        ELSE [frame EXCEPT !.pc = "load_vertex",
                                           !.mesh = <<last'.ret[1]>>]

\* walk_gltf: the vertex buffer of the mesh is created.
LoadVertexBuffer ==
    /\ frame.pc = "load_vertex"
    /\ CreateBuffer(VertexBufferDesc(Head(frame.gltf)))
    /\ frame' = IF panic' # NoPanic THEN frame
                ELSE [frame EXCEPT !.pc = "load_index",
                                   !.mesh = Append(@, last'.ret[1])]

\* walk_gltf: the index buffer of the mesh is created.
LoadIndexBuffer ==
    /\ frame.pc = "load_index"
    /\ CreateBuffer(IndexBufferDesc(Head(frame.gltf)))
    /\ frame' = IF panic' # NoPanic THEN frame
                ELSE [frame EXCEPT !.pc = "load_bind_group",
                                   !.mesh = Append(@, last'.ret[1])]

\* Mesh::new: the bind group of the mesh is created over its uniform
\* buffer; the mesh joins the meshes of the scene being loaded.
LoadMeshBindGroup ==
    /\ frame.pc = "load_bind_group"
    /\ CreateBindGroup(MeshBindGroupDesc(frame.mesh[1]))
    /\ frame' = IF panic' # NoPanic THEN frame
                ELSE [frame EXCEPT
                        !.pc = "load", !.gltf = Tail(@), !.mesh = <<>>,
                        !.loaded = Append(@,
                           [uniform_buffer |-> frame.mesh[1],
                            bind_group |-> last'.ret[1],
                            vertex_buffer |-> frame.mesh[2],
                            index_buffer |-> frame.mesh[3]])]

\* Scene::load_gltf after the walk: the uniform buffer of the new scene is
\* created and the new scene replaces the scene of the renderer.
LoadSceneUniform ==
    /\ frame.pc = "load"
    /\ frame.gltf = <<>>
    /\ CreateBuffer(SceneUniformDesc)
    /\ frame' = IF panic' # NoPanic THEN frame
                ELSE [frame EXCEPT !.pc = "update",
                                   !.scene_uniform = last'.ret[1],
                                   !.meshes = frame.loaded,
                                   !.loaded = <<>>]

\* Renderer::update: the camera uniforms are written to the scene's buffer.
UpdateUniforms(data) ==
    /\ frame.pc = "update"
    /\ update_buffer(frame.scene_uniform, data)
    /\ frame' = IF panic' # NoPanic THEN frame
                ELSE [frame EXCEPT !.pc = "surface"]

\* Renderer::update: surface.get_current_texture().unwrap(); acquired is
\* whether the surface hands out a texture (it does not when it is lost,
\* outdated or timed out).
AcquireSurface(acquired) ==
    /\ panic = NoPanic
    /\ frame.pc = "surface"
    /\ panic' = IF acquired THEN NoPanic ELSE PanicUnwrap
    /\ frame' = IF acquired THEN [frame EXCEPT !.pc = "draw_depth"] ELSE frame
    /\ UNCHANGED <<buffers, textures, samplers, bind_groups, shaders,
                   shader_compilation_error, pipelines_built, last, issued,
                   reloaded>>

\* Renderer::update, the draw pass: the depth buffer is fetched.
FetchDepthBuffer ==
    /\ frame.pc = "draw_depth"
    /\ get_texture(frame.depth_buffer)
    /\ frame' = IF panic' # NoPanic THEN frame
                ELSE [frame EXCEPT !.pc = "draw_pipeline"]

\* A pipeline fetch that another thread makes, also while the control thread
\* is inside recompile.
FetchPipelineFromOtherThread ==
    /\ frame.pc \in {"draw_pipeline", "recompile"}
    /\ get_shader(frame.shader)
    /\ frame' = IF panic' # NoPanic \/ frame.pc = "recompile" THEN frame
                ELSE [frame EXCEPT !.pc = "draw_scene_bind_group"]

\* Renderer::update, the draw pass: the pipeline is fetched.
FetchPipeline ==
    /\ frame.pc = "draw_pipeline"
    /\ get_shader(frame.shader)
    /\ frame' = IF panic' # NoPanic THEN frame
                ELSE [frame EXCEPT !.pc = "draw_scene_bind_group"]

\* Renderer::update, the draw pass: the bind group of the scene is fetched,
\* then the loop over the meshes of the scene begins.
FetchSceneBindGroup(handle) ==
    /\ frame.pc = "draw_scene_bind_group"
    /\ get_bind_group(handle)
    /\ frame' = IF panic' # NoPanic THEN frame
                ELSE [frame EXCEPT
                        !.pc = IF frame.meshes = <<>> THEN "present"
                               ELSE "draw_mesh_bind_group",
                        !.cursor = 1]

\* The loop over the meshes: the bind group of the mesh is fetched.
FetchMeshBindGroup ==
    /\ frame.pc = "draw_mesh_bind_group"
    /\ get_bind_group(frame.meshes[frame.cursor].bind_group)
    /\ frame' = IF panic' # NoPanic THEN frame
                ELSE [frame EXCEPT !.pc = "draw_mesh_vertex"]

\* The loop over the meshes: the vertex buffer of the mesh is fetched.
FetchMeshVertexBuffer ==
    /\ frame.pc = "draw_mesh_vertex"
    /\ get_buffer(frame.meshes[frame.cursor].vertex_buffer)
    /\ frame' = IF panic' # NoPanic THEN frame
                ELSE [frame EXCEPT !.pc = "draw_mesh_index"]

\* The loop over the meshes: the index buffer of the mesh is fetched and the
\* mesh is drawn.
FetchMeshIndexBuffer ==
    /\ frame.pc = "draw_mesh_index"
    /\ get_buffer(frame.meshes[frame.cursor].index_buffer)
    /\ frame' = IF panic' # NoPanic THEN frame
                ELSE [frame EXCEPT
                        !.pc = IF frame.cursor < Len(frame.meshes)
                               THEN "draw_mesh_bind_group" ELSE "present",
                        !.cursor = @ + 1]

\* Renderer::update: the frame is submitted and presented; the control
\* thread is back in the event loop.
Present ==
    /\ panic = NoPanic
    /\ frame.pc = "present"
    /\ frame' = [frame EXCEPT !.pc = "events", !.cursor = 0]
    /\ UNCHANGED manager

NextFrame ==
    \/ RedrawRequested
    \/ ReloadNotClicked
    \/ ReloadClicked
    \/ \E file \in Files, reread \in Files : RecompileReturns(file, reread)
    \/ LoadNotClicked
    \/ \E pick \in GltfPicks : LoadClicked(pick)
    \/ \E data \in MeshUniforms : LoadMeshUniform(data)
    \/ LoadVertexBuffer
    \/ LoadIndexBuffer
    \/ LoadMeshBindGroup
    \/ LoadSceneUniform
    \/ \E data \in CameraUniforms : UpdateUniforms(data)
    \/ \E acquired \in BOOLEAN : AcquireSurface(acquired)
    \/ FetchDepthBuffer
    \/ FetchPipeline
    \/ \E handle \in SceneBindGroupHandles : FetchSceneBindGroup(handle)
    \/ FetchMeshBindGroup
    \/ FetchMeshVertexBuffer
    \/ FetchMeshIndexBuffer
    \/ Present

SpecFrame == InitFrame /\ [][NextFrame]_vars

\* C25: within one frame the manager operations run one after another on the
\* control thread: while a recompile triggered by the Reload button is in
\* progress the only step of the manager is that recompile running to its
\* end, and the draw fetches the pipeline only from its own place in the
\* frame, after the user interface has returned, and gets the pipeline that
\* is installed then.
C25_FrameOperationsDoNotInterleave ==
    [][/\ (frame.pc = "recompile" /\ manager' # manager) =>
            /\ last'.op = "recompile"
            /\ last'.handle = Handle(frame.button, "SHADER")
            /\ frame'.pc # "recompile" \/ panic' # NoPanic
       /\ (last'.op = "get_shader" /\ manager' # manager) =>
            /\ frame.pc = "draw_pipeline"
            /\ last'.ret = Some(shaders[frame.shader.index + 1])
            /\ shaders' = shaders]_vars

\* C25 witness: in a frame whose Reload click led to a successful recompile
\* to the second revision, the draw has fetched the pipeline of that revision.
C25_Witness ==
    /\ frame.pc = "draw_scene_bind_group"
    /\ frame.reloads = 1
    /\ reloaded.trial = "none"
    /\ panic = NoPanic
    /\ last.op = "get_shader"
    /\ last.ret = Some(shaders[1])
    /\ shaders[1].internal.source = "wgsl_rev2"

\* C26: every handle a create has returned stays dereferenceable: in every
\* reachable state its index is below the length of the arena of its kind,
\* so the matching accessor does not fault on the index, also after Load
\* glTF has replaced the scene (the old scene's buffer stays in the arena,
\* and the buffers and bind groups of the meshes join it).
C26_IssuedHandlesStayInRange ==
    \A k \in HandleType :
        \A j \in 1..Len(issued[k]) :
            /\ issued[k][j].handle.index < Len(ArenaOf(k))
            /\ k # "SAMPLER" => Get(k, issued[k][j].handle).panic # PanicIndex

\* C26 witness: a frame has drawn the mesh of the scene that Load glTF put
\* in the place of the first one; the handle of the old scene's buffer, the
\* handles of the mesh and the handle of the new scene's buffer are all in
\* range.
C26_Witness ==
    /\ frame.loads = 1
    /\ frame.pc = "present"
    /\ Len(frame.meshes) = 1
    /\ frame.meshes[1].index_buffer = Handle(3, "BUFFER")
    /\ frame.meshes[1].bind_group = Handle(0, "BINDGROUP")
    /\ frame.scene_uniform = Handle(4, "BUFFER")
    /\ Len(issued["BUFFER"]) = 5
    /\ issued["BUFFER"][1].handle = Handle(0, "BUFFER")
    /\ Len(buffers) = 5
    /\ Len(bind_groups) = 1
    /\ last.op = "get_buffer"
    /\ last.handle = Handle(3, "BUFFER")
    /\ panic = NoPanic

\* ------------------------------------------------------- creates and reloads
\* The operations that take &mut self: the five creates and recompile.
NextCreate ==
    \/ \E desc \in BufferDescs : create_buffer(desc)
          /\ UNCHANGED frame
    \/ \E desc \in TextureDescs : create_texture(desc)
          /\ UNCHANGED frame
    \/ \E desc \in SamplerDescs : create_sampler(desc)
          /\ UNCHANGED frame
    \/ \E desc \in BindGroupInputs : create_bind_group(desc)
          /\ UNCHANGED frame
    \/ \E desc \in ShaderDescs, file \in Files : create_shader(desc, file)
          /\ UNCHANGED frame
    \/ \E handle \in ShaderHandles, file \in Files, reread \in Files :
          recompile(handle, file, reread)
          /\ UNCHANGED frame

SpecCreate == Init /\ [][NextCreate]_vars

\* The name of the create operation of a kind.
CreateOp(k) ==
    CASE k = "BUFFER" -> "create_buffer"
      [] k = "TEXTURE" -> "create_texture"
      [] k = "SAMPLER" -> "create_sampler"
      [] k = "BINDGROUP" -> "create_bind_group"
      [] k = "SHADER" -> "create_shader"

\* C27: a successful create_<kind> changes only the arena of that kind, and
\* only by appending one entry: every entry already present in any arena,
\* the lengths of the other four arenas and the diagnostic string are
\* unchanged (create_shader neither sets nor clears the diagnostic).
C27_CreateAppendsToOwnArenaOnly ==
    [][\A k \in HandleType :
          (last'.op = CreateOp(k) /\ last'.ret # None) =>
             /\ Len(ArenaOf(k)') = Len(ArenaOf(k)) + 1
             /\ \A j \in 1..Len(ArenaOf(k)) : ArenaOf(k)'[j] = ArenaOf(k)[j]
             /\ \A o \in HandleType \ {k} : ArenaOf(o)' = ArenaOf(o)
             /\ shader_compilation_error' = shader_compilation_error]_vars

\* C27 witness: a second shader was created while the diagnostic string held
\* the message of a failed recompile of the first, and the message is still
\* there.
C27_Witness ==
    /\ last.op = "create_shader"
    /\ last.ret = Some(Handle(1, "SHADER"))
    /\ last.diagnostic # <<>>
    /\ shader_compilation_error = last.diagnostic
    /\ Len(shaders) = 2

\* C28: recompile(h) changes nothing but the diagnostic string and, when it
\* observed no validation error, the shader at h's index: the other shaders,
\* the buffer, texture, sampler and bind-group arenas and all arena lengths
\* are unchanged; and the pipeline installed for a shader changes only in a
\* recompile of that same index that observed no validation error.
C28_RecompileFrame ==
    [][/\ last'.op = "recompile" =>
            /\ buffers' = buffers
            /\ textures' = textures
            /\ samplers' = samplers
            /\ bind_groups' = bind_groups
            /\ Len(shaders') = Len(shaders)
            /\ \A j \in 1..Len(shaders) :
                  j # last'.handle.index + 1 => shaders'[j] = shaders[j]
            /\ last'.trial # "none" => shaders' = shaders
       /\ \A j \in 1..Len(shaders) :
            (j <= Len(shaders') /\ shaders'[j].internal # shaders[j].internal) =>
               /\ last'.op = "recompile"
               /\ last'.handle.index + 1 = j
               /\ last'.trial = "none"]_vars

\* C28 witness: the first of two shaders was recompiled successfully; the
\* second shader still has the pipeline it was created with.
C28_Witness ==
    /\ last.op = "recompile"
    /\ last.trial = "none"
    /\ panic = NoPanic
    /\ last.handle.index = 0
    /\ Len(shaders) = 2
    /\ shaders[1].internal # last.before[1].internal
    /\ shaders[2].internal.id = 2
    /\ shaders[1].internal.id = 3

\* The shader holds a pipeline the backend built from a source that passed
\* validation and provides the stages its descriptor names.
HoldsBuiltPipeline(shader) ==
    /\ WgslValid(shader.internal.source)
    /\ PipelineValid(shader.desc, shader.internal.source)
    /\ shader.internal.id \in 1..pipelines_built

\* C29: every entry of the shader arena holds a successfully built pipeline
\* in every reachable state: no sequence of create_shader and recompile
\* calls, with valid or invalid sources, leaves an entry without a pipeline
\* or with a pipeline built from a source that failed validation.
C29_EveryShaderHoldsBuiltPipeline ==
    \A j \in 1..Len(shaders) : HoldsBuiltPipeline(shaders[j])

\* C29 witness: a recompile whose trial read saw the second revision and
\* whose rebuild read a text that fails validation has ended in the
\* backend's panic; the entry still holds the pipeline built from the first
\* revision.
C29_Witness ==
    /\ last.op = "recompile"
    /\ last.file = Some("wgsl_rev2")
    /\ last.reread = Some(Some("wgsl_syntax_error"))
    /\ panic = PanicWgpu
    /\ shader_compilation_error = <<>>
    /\ Len(shaders) = 2
    /\ shaders[ReloadIndex] = last.before[1]
    /\ shaders[ReloadIndex].internal.source = "wgsl_rev1"

====
